---- MODULE Spec2Model ----
(***************************************************************************)
(* A model of the AG-TUNE generation engine (src/src/App.jsx): the CYK     *)
(* parser, Floyd's cycle detector, the TD(lambda) value estimator, the     *)
(* kernel PCA model and the engine that owns them (train, checkpoints,     *)
(* generation).  Each component has its own variable and specification;    *)
(* a component's variable stays at Idle under the other specifications.    *)
(*                                                                         *)
(* JavaScript strings are modelled as sequences of one-character strings   *)
(* wherever the code reads their length or destructures them.              *)
(***************************************************************************)
EXTENDS Integers, Sequences, FiniteSets, TLC

VARIABLES cyk, floyd, td, kp, eng, pair, rete, ule, fft, voc, ver

vars == <<cyk, floyd, td, kp, eng, pair, rete, ule, fft, voc, ver>>

Idle == [pc |-> "idle"]

\* ------------------------------------------------------------------------
\* Helpers
\* ------------------------------------------------------------------------

\* All sequences over S of length 0..n.
SeqsUpTo(S, n) == UNION {[1..k -> S] : k \in 0..n}

Min(a, b) == IF a < b THEN a ELSE b

Max(a, b) == IF a < b THEN b ELSE a

\* ------------------------------------------------------------------------
\* CYKParser (src/src/App.jsx 371-420)
\* ------------------------------------------------------------------------

\* A production of the grammar object is a JS string (a terminal) or a JS
\* array of symbol names.  kind = "str": syms = <<the string>>;
\* kind = "arr": syms = the array's elements.
StrProd(s) == [kind |-> "str", syms |-> <<s>>]

ArrProd(a) == [kind |-> "arr", syms |-> a]

\* prod.length
ProdLength(prod) ==
  IF prod.kind = "str" THEN Len(prod.syms[1]) ELSE Len(prod.syms)

\* const [left, right] = prod   (a string destructures into its characters)
ProdLeft(prod) ==
  IF prod.kind = "str" THEN <<prod.syms[1][1]>> ELSE prod.syms[1]

ProdRight(prod) ==
  IF prod.kind = "str" THEN <<prod.syms[1][2]>> ELSE prod.syms[2]

\* productions.includes(token): strict equality, so only a string matches.
ProductionsInclude(productions, token) ==
  \E p \in productions : p.kind = "str" /\ p.syms[1] = token

\* Terminal productions: the diagonal of the table.
CYKDiagonal(grammar, tokens) ==
  [c \in (1..Len(tokens)) \X (1..Len(tokens)) |->
     IF c[1] = c[2]
     THEN {nt \in DOMAIN grammar : ProductionsInclude(grammar[nt], tokens[c[1]])}
     ELSE {}]

\* The split points tried for the span i..j: for (k = i; k < j; k++).
CYKSplits(i, j) == i .. (j - 1)

\* The non-terminals added to table[i][j], reading the shorter spans of table.
CYKCell(grammar, table, i, j) ==
  {nt \in DOMAIN grammar :
     \E prod \in grammar[nt] :
        /\ ProdLength(prod) = 2
        /\ \E k \in CYKSplits(i, j) :
              /\ ProdLeft(prod) \in table[<<i, k>>]
              /\ ProdRight(prod) \in table[<<k + 1, j>>]}

\* for (len = 2; len <= n; len++) for (i = 0; i <= n - len; i++) ...
RECURSIVE CYKFill(_, _, _, _)
CYKFill(grammar, table, n, len) ==
  IF len > n THEN table
  ELSE CYKFill(grammar,
               [c \in DOMAIN table |->
                  IF c[2] = c[1] + len - 1
                  THEN table[c] \cup CYKCell(grammar, table, c[1], c[2])
                  ELSE table[c]],
               n, len + 1)

StartSymbol == <<"S">>

\* CYKParser.parse(tokens)
CYKParse(grammar, tokens) ==
  LET n == Len(tokens) IN
  IF n = 0 THEN TRUE
  ELSE StartSymbol \in
         CYKFill(grammar, CYKDiagonal(grammar, tokens), n, 2)[<<1, n>>]

\* --- the inputs explored ---------------------------------------------------

MaxTokens == 3

NtS == <<"S">>
NtA == <<"A">>
TokX == <<"x">>
TokAA == <<"A", "A">>

SmallNonTerminals == {NtS, NtA}

SmallProductions ==
  {StrProd(TokX), StrProd(TokAA)}
    \cup {ArrProd(<<l, r>>) : l \in SmallNonTerminals, r \in SmallNonTerminals}

SmallGrammars == [SmallNonTerminals -> SUBSET SmallProductions]

SmallTokenSeqs == SeqsUpTo({TokX, TokAA}, MaxTokens)

\* The grammar and sentence of test-module-validation.js (mutation testing).
NtNP == <<"N", "P">>
NtVP == <<"V", "P">>
NtDet == <<"D", "e", "t">>
NtN == <<"N">>
NtV == <<"V">>
TokThe == <<"t", "h", "e">>
TokCat == <<"c", "a", "t">>
TokChased == <<"c", "h", "a", "s", "e", "d">>

ExampleNonTerminals == {NtS, NtNP, NtVP, NtDet, NtN, NtV}

ExampleGrammar ==
  [nt \in ExampleNonTerminals |->
     CASE nt = NtS -> {ArrProd(<<NtNP, NtVP>>)}
       [] nt = NtNP -> {ArrProd(<<NtDet, NtN>>)}
       [] nt = NtVP -> {ArrProd(<<NtV, NtNP>>)}
       [] nt = NtDet -> {StrProd(TokThe)}
       [] nt = NtN -> {StrProd(TokCat)}
       [] nt = NtV -> {StrProd(TokChased)}]

ExampleGrammarNoVP ==
  [nt \in ExampleNonTerminals \ {NtVP} |-> ExampleGrammar[nt]]

ExampleTokens == <<TokThe, TokCat, TokChased, TokThe, TokCat>>

ExampleTokenSeqs ==
  {ExampleTokens, <<TokThe, TokCat>>, <<TokChased, TokThe, TokCat>>, <<>>}

CYKInputs ==
  (SmallGrammars \X SmallTokenSeqs)
    \cup ({ExampleGrammar, ExampleGrammarNoVP} \X ExampleTokenSeqs)

InitCYK ==
  /\ \E in \in CYKInputs :
       cyk = [pc |-> "ready", grammar |-> in[1], tokens |-> in[2], result |-> FALSE]
  /\ floyd = Idle
  /\ td = Idle
  /\ kp = Idle
  /\ eng = Idle
  /\ pair = Idle
  /\ rete = Idle
  /\ ule = Idle
  /\ fft = Idle
  /\ voc = Idle
  /\ ver = Idle

Parse ==
  /\ cyk.pc = "ready"
  /\ cyk' = [cyk EXCEPT !.pc = "parsed",
                        !.result = CYKParse(cyk.grammar, cyk.tokens)]
  /\ UNCHANGED <<floyd, td, kp, eng, pair, rete, ule, fft, voc, ver>>

NextCYK == Parse

SpecCYK == InitCYK /\ [][NextCYK]_vars

\* --- what "S derives the sequence" means -----------------------------------

\* A =>* tokens[i..j] in the Chomsky-normal-form reading of the grammar: a
\* string production is a terminal, a two-element array is A -> B C.
RECURSIVE Derives(_, _, _, _, _)
Derives(grammar, nt, tokens, i, j) ==
  /\ nt \in DOMAIN grammar
  /\ IF i = j
     THEN \E p \in grammar[nt] : p.kind = "str" /\ p.syms[1] = tokens[i]
     ELSE \E p \in grammar[nt] :
            /\ p.kind = "arr"
            /\ Len(p.syms) = 2
            /\ \E k \in i .. (j - 1) :
                  /\ Derives(grammar, p.syms[1], tokens, i, k)
                  /\ Derives(grammar, p.syms[2], tokens, k + 1, j)

StartDerives(grammar, tokens) ==
  Derives(grammar, StartSymbol, tokens, 1, Len(tokens))

\* C1: for a CNF grammar and n >= 1 tokens, parse returns true exactly when
\* S derives the whole sequence; the example sentence is accepted under the
\* example grammar and rejected once the VP rule is removed.
C1_ParseIffDerives ==
  (cyk.pc = "parsed" /\ Len(cyk.tokens) >= 1)
    => /\ cyk.result = StartDerives(cyk.grammar, cyk.tokens)
       /\ (cyk.grammar = ExampleGrammar /\ cyk.tokens = ExampleTokens)
            => cyk.result = TRUE
       /\ (cyk.grammar = ExampleGrammarNoVP /\ cyk.tokens = ExampleTokens)
            => cyk.result = FALSE

\* C2: parse returns false for the empty token sequence, for every grammar.
C2_EmptyRejected ==
  (cyk.pc = "parsed" /\ Len(cyk.tokens) = 0) => cyk.result = FALSE

\* ------------------------------------------------------------------------
\* FloydCycleDetector (src/src/App.jsx 339-365)
\* ------------------------------------------------------------------------

\* JS arrays are indexed from 0.
At(seq, i) == seq[i + 1]

\* sequence.slice(-maxLookback): the last maxLookback elements; slice(-0) is
\* slice(0), the whole array.
SliceLast(sequence, maxLookback) ==
  IF maxLookback = 0 \/ maxLookback >= Len(sequence) THEN sequence
  ELSE SubSeq(sequence, Len(sequence) - maxLookback + 1, Len(sequence))

\* What detect returns: the boolean false, or a {detected, length} object.
\* (detected and length of the boolean read as undefined in JS; they are
\* kept here as FALSE and 0 so that every result has one shape.)
JSFalse == [type |-> "boolean", detected |-> FALSE, length |-> 0]

CycleObject(detected, length) ==
  [type |-> "object", detected |-> detected, length |-> length]

\* while (i < hare && tokens[i] === tokens[tortoise + (i - tortoise) % (hare - tortoise)])
\*   { cycleLen++; i++; }
RECURSIVE CycleLenLoop(_, _, _, _, _)
CycleLenLoop(tokens, tortoise, hare, i, cycleLen) ==
  IF i < hare
     /\ At(tokens, i) = At(tokens, tortoise + ((i - tortoise) % (hare - tortoise)))
  THEN CycleLenLoop(tokens, tortoise, hare, i + 1, cycleLen + 1)
  ELSE cycleLen

\* The tortoise advances by 1 and the hare by 2 per step.
HareStep == 2

\* while (hare < tokens.length) { ... tortoise++; hare += 2; }
RECURSIVE FloydLoop(_, _, _)
FloydLoop(tokens, tortoise, hare) ==
  IF hare < Len(tokens)
  THEN IF At(tokens, tortoise) = At(tokens, hare)
       THEN CycleObject(TRUE, CycleLenLoop(tokens, tortoise, hare, tortoise + 1, 1))
       ELSE FloydLoop(tokens, tortoise + 1, hare + HareStep)
  ELSE CycleObject(FALSE, 0)

\* FloydCycleDetector.detect(sequence, maxLookback); the tokens are strings,
\* for which t.token || t is t.
FloydDetect(sequence, maxLookback) ==
  IF Len(sequence) < 4 THEN JSFalse
  ELSE FloydLoop(SliceLast(sequence, maxLookback), 1, 2)

\* --- the inputs explored ---------------------------------------------------

MaxSeqLen == 6

DefaultMaxLookback == 15

FloydTokens == {"love", "death", "the", "fox"}

LookbackChoices == {0, 3, 5, DefaultMaxLookback}

LoveDeath == <<"love", "death", "love", "death", "love", "death">>

InitFloyd ==
  /\ \E s \in SeqsUpTo(FloydTokens, MaxSeqLen), lb \in LookbackChoices :
       floyd = [pc |-> "ready", sequence |-> s, maxLookback |-> lb,
                result |-> JSFalse, calls |-> 0]
  /\ cyk = Idle
  /\ td = Idle
  /\ kp = Idle
  /\ eng = Idle
  /\ pair = Idle
  /\ rete = Idle
  /\ ule = Idle
  /\ fft = Idle
  /\ voc = Idle
  /\ ver = Idle

\* detect is called (twice at most: the claim speaks of every call).
Detect ==
  /\ floyd.pc \in {"ready", "detected"}
  /\ floyd.calls < 2
  /\ floyd' = [floyd EXCEPT !.pc = "detected",
                            !.calls = @ + 1,
                            !.result = FloydDetect(floyd.sequence, floyd.maxLookback)]
  /\ UNCHANGED <<cyk, td, kp, eng, pair, rete, ule, fft, voc, ver>>

NextFloyd == Detect

SpecFloyd == InitFloyd /\ [][NextFloyd]_vars

\* --- the claim's reading of detect -----------------------------------------

\* The first step s >= 0 at which tokens[1 + s] = tokens[2 + 2s], the hare
\* still inside the window; -1 when there is none.
FirstMeeting(tokens) ==
  LET steps == {s \in 0 .. Len(tokens) :
                  /\ 2 + 2 * s < Len(tokens)
                  /\ At(tokens, 1 + s) = At(tokens, 2 + 2 * s)}
  IN IF steps = {} THEN -1
     ELSE CHOOSE s \in steps : \A t \in steps : s <= t

ClaimedDetect(sequence, maxLookback) ==
  LET tokens == SliceLast(sequence, maxLookback)
      s == FirstMeeting(tokens)
  IN IF Len(sequence) < 4 \/ s = -1
     THEN CycleObject(FALSE, 0)
     ELSE CycleObject(TRUE, (2 + 2 * s) - (1 + s))

PairwiseDistinct(seq) ==
  \A i, j \in 1 .. Len(seq) : i # j => seq[i] # seq[j]

\* C3: detect always returns a {detected, length} record: {true, hare -
\* tortoise} at the first meeting of tortoise (from 1, by 1) and hare (from
\* 2, by 2), {false, 0} when the hare leaves the window first or the
\* sequence has fewer than 4 tokens; love/death x3 gives {true, 2} on every
\* call; pairwise-distinct tokens are never flagged.
C3_DetectRecord ==
  floyd.pc = "detected"
    => /\ floyd.result = ClaimedDetect(floyd.sequence, floyd.maxLookback)
       /\ (floyd.sequence = LoveDeath /\ floyd.maxLookback = DefaultMaxLookback)
            => floyd.result = CycleObject(TRUE, 2)
       /\ PairwiseDistinct(floyd.sequence) => ~floyd.result.detected

\* ------------------------------------------------------------------------
\* TDValueEstimator (src/src/App.jsx 180-255)
\*
\* Numbers are integers here: the update rule is modelled as the arithmetic
\* the code writes, without floating-point rounding.  The inputs are chosen
\* so that the two divisions of _extractFeatures are exact.
\* ------------------------------------------------------------------------

Zeros(n) == [i \in 1 .. n |-> 0]

RECURSIVE SumTo(_, _)
SumTo(f, n) == IF n = 0 THEN 0 ELSE f[n] + SumTo(f, n - 1)

\* phi.reduce((sum, f, i) => sum + f * weights[i], 0)
Dot(phi, weights) == SumTo([i \in 1 .. Len(phi) |-> phi[i] * weights[i]], Len(phi))

\* A poetic state, or null (isNull), or an object without eSpaceTraj.
NullState ==
  [isNull |-> TRUE, hasTraj |-> FALSE, eSpaceTraj |-> <<>>, meterScore |-> 0,
   rhymeConsistency |-> 0, novelty |-> 0, lineCount |-> 0, themeCoherence |-> 0]

PoeticState(traj, meter, rhyme, novelty, lineCount, theme) ==
  [isNull |-> FALSE, hasTraj |-> TRUE, eSpaceTraj |-> traj, meterScore |-> meter,
   rhymeConsistency |-> rhyme, novelty |-> novelty, lineCount |-> lineCount,
   themeCoherence |-> theme]

\* Array(state.eSpaceTraj[0]?.length || 12)
DefaultESpaceDim == 12

\* The reduce over the trajectory: acc[i] = (acc[i] || 0) + v, from an
\* accumulator of eSpaceTraj[0].length (or 12) zeros.
ESpaceCenter(traj) ==
  LET d0 == IF Len(traj) = 0 \/ Len(traj[1]) = 0 THEN DefaultESpaceDim
            ELSE Len(traj[1])
      RECURSIVE MaxLen(_)
      MaxLen(k) == IF k = 0 THEN d0 ELSE Max(Len(traj[k]), MaxLen(k - 1))
      d == MaxLen(Len(traj))
  IN [i \in 1 .. d |->
        SumTo([k \in 1 .. Len(traj) |-> IF i <= Len(traj[k]) THEN traj[k][i] ELSE 0],
              Len(traj))]

\* The five features pushed after the trajectory mean.
PoeticFeatures(state) ==
  <<state.meterScore, state.rhymeConsistency, state.novelty,
    state.lineCount \div 100, state.themeCoherence>>

\* The padding loop alone, without the slice.
PadOnly(features, F) ==
  [i \in 1 .. Max(F, Len(features)) |-> IF i <= Len(features) THEN features[i] ELSE 0]

\* while (features.length < F) features.push(0); return features.slice(0, F)
PadTruncate(features, F) ==
  [i \in 1 .. F |-> IF i <= Len(features) THEN features[i] ELSE 0]

\* TDValueEstimator._extractFeatures(state), F = this.weights.length
ExtractFeatures(state, F) ==
  IF state.isNull \/ ~state.hasTraj THEN Zeros(F)
  ELSE LET center == ESpaceCenter(state.eSpaceTraj)
           n == IF Len(state.eSpaceTraj) = 0 THEN 1 ELSE Len(state.eSpaceTraj)
           mean == [i \in 1 .. Len(center) |-> center[i] \div n]
       IN PadTruncate(mean \o PoeticFeatures(state), F)

\* TDValueEstimator.estimate(state)
Estimate(est, state) == Dot(ExtractFeatures(state, Len(est.weights)), est.weights)

\* const tdError = reward + (done ? 0 : this.gamma * vNext) - v
TDErrorNoBootstrap(est, v, vNext, reward, done) == reward - v

TDError(est, v, vNext, reward, done) ==
  reward + (IF done THEN 0 ELSE est.gamma * vNext) - v

\* this.eligibility.map((e, i) => this.gamma * this.lambda * e + phi[i])
TraceNoDecay(est, phi) == phi

Trace(est, phi) ==
  [i \in 1 .. Len(est.eligibility) |->
     est.gamma * est.lambda * est.eligibility[i] + phi[i]]

\* update without the final `if (done) this.eligibility.fill(0)`
TDUpdateNoReset(est, state, reward, nextState, done) ==
  LET F == Len(est.weights)
      phi == ExtractFeatures(state, F)
      phiNext == IF done THEN Zeros(F) ELSE ExtractFeatures(nextState, F)
      v == Dot(phi, est.weights)
      vNext == Dot(phiNext, est.weights)
      tdError == TDError(est, v, vNext, reward, done)
      eligibility == Trace(est, phi)
      weights == [i \in 1 .. F |-> est.weights[i] + est.alpha * tdError * eligibility[i]]
  IN [est EXCEPT !.weights = weights, !.eligibility = eligibility]

\* TDValueEstimator.update(state, reward, nextState, done): the estimator after it
TDUpdate(est, state, reward, nextState, done) ==
  LET F == Len(est.weights)
      phi == ExtractFeatures(state, F)
      phiNext == IF done THEN Zeros(F) ELSE ExtractFeatures(nextState, F)
      v == Dot(phi, est.weights)
      vNext == Dot(phiNext, est.weights)
      tdError == TDError(est, v, vNext, reward, done)
      eligibility == Trace(est, phi)
      weights == [i \in 1 .. F |-> est.weights[i] + est.alpha * tdError * eligibility[i]]
  IN [est EXCEPT !.weights = weights,
                 !.eligibility = IF done THEN Zeros(Len(eligibility)) ELSE eligibility]

\* new TDValueEstimator(nFeatures, alpha, gamma, lambda); the weights are
\* nFeatures draws of Math.random() * 0.01, given here as `weights`.
NewEstimator(weights, alpha, gamma, lambda) ==
  [weights |-> weights, alpha |-> alpha, gamma |-> gamma, lambda |-> lambda,
   eligibility |-> Zeros(Len(weights))]

\* --- the inputs explored ---------------------------------------------------

MaxFeatures == 7

MaxUpdates == 2

FeatureCounts == {3, MaxFeatures}

\* Samples of the random initial weights.
WeightSamples(F) == {Zeros(F), [i \in 1 .. F |-> i % 2]}

TDStates ==
  {NullState,
   PoeticState(<<<<2>>>>, 1, 1, 0, 100, 1),
   PoeticState(<<<<2, 0>>, <<0, 4>>>>, 0, 1, 1, 0, 0)}

TDRewards == {0, 2}

InitTD ==
  /\ \E F \in FeatureCounts : \E w \in WeightSamples(F) :
       td = [pc |-> "ready", F |-> F, est |-> NewEstimator(w, 2, 3, 2),
             pre |-> NewEstimator(w, 2, 3, 2),
             state |-> NullState, reward |-> 0, nextState |-> NullState,
             done |-> FALSE, value |-> 0, updates |-> 0]
  /\ cyk = Idle
  /\ floyd = Idle
  /\ kp = Idle
  /\ eng = Idle
  /\ pair = Idle
  /\ rete = Idle
  /\ ule = Idle
  /\ fft = Idle
  /\ voc = Idle
  /\ ver = Idle

TDEstimate ==
  /\ td.pc \in {"ready", "updated"}
  /\ \E s \in TDStates :
       td' = [td EXCEPT !.pc = "estimated", !.state = s,
                        !.value = Estimate(td.est, s)]
  /\ UNCHANGED <<cyk, floyd, kp, eng, pair, rete, ule, fft, voc, ver>>

TDUpdateCall ==
  /\ td.pc \in {"ready", "updated", "estimated"}
  /\ td.updates < MaxUpdates
  /\ \E s \in TDStates, r \in TDRewards, n \in TDStates, d \in BOOLEAN :
       td' = [td EXCEPT !.pc = "updated", !.pre = td.est,
                        !.est = TDUpdate(td.est, s, r, n, d),
                        !.state = s, !.reward = r, !.nextState = n, !.done = d,
                        !.value = 0, !.updates = @ + 1]
  /\ UNCHANGED <<cyk, floyd, kp, eng, pair, rete, ule, fft, voc, ver>>

NextTD == TDEstimate \/ TDUpdateCall

SpecTD == InitTD /\ [][NextTD]_vars

\* --- the TD(lambda) rule as the claim states it ----------------------------

\* V(s) under weights w.
ValueUnder(w, state) == Dot(ExtractFeatures(state, Len(w)), w)

\* C4: update computes delta = reward + (done ? 0 : gamma*V(nextState)) -
\* V(state) with the weights before the call, then e := gamma*lambda*e +
\* phi(state), then w := w + alpha*delta*e, and changes nothing else other
\* than resetting e when done.
C4_UpdateRule ==
  td.pc = "updated" =>
    LET F == Len(td.pre.weights)
        phi == ExtractFeatures(td.state, F)
        delta == td.reward
                   + (IF td.done THEN 0
                      ELSE td.pre.gamma * ValueUnder(td.pre.weights, td.nextState))
                   - ValueUnder(td.pre.weights, td.state)
        e == [i \in 1 .. F |->
                td.pre.gamma * td.pre.lambda * td.pre.eligibility[i] + phi[i]]
    IN /\ td.est.weights = [i \in 1 .. F |-> td.pre.weights[i] + td.pre.alpha * delta * e[i]]
       /\ td.est.eligibility = (IF td.done THEN Zeros(F) ELSE e)
       /\ td.est.alpha = td.pre.alpha
       /\ td.est.gamma = td.pre.gamma
       /\ td.est.lambda = td.pre.lambda

\* An update with done = false that started from a non-zero trace and a
\* non-zero value of the next state.
C4_Witness ==
  /\ td.pc = "updated"
  /\ ~td.done
  /\ td.pre.eligibility # Zeros(Len(td.pre.weights))
  /\ ValueUnder(td.pre.weights, td.nextState) # 0
  /\ td.est.weights # td.pre.weights

NaN == -2147483647

NumAdd(a, b) == IF a = NaN \/ b = NaN THEN NaN ELSE a + b

NumMul(a, b) == IF a = NaN \/ b = NaN THEN NaN ELSE a * b

\* The sequence f and the function f, with their entries evaluated once.
Stored(f) == f \o <<>>

StoredMap(f) == f @@ <<>>

RECURSIVE NumSumTo(_, _)
NumSumTo(f, n) == IF n = 0 THEN 0 ELSE NumAdd(NumSumTo(f, n - 1), f[n])

RECURSIVE Pow(_, _)
Pow(b, d) == IF d <= 0 THEN 1 ELSE b * Pow(b, d - 1)

\* new KernelPCA(nComponents, degree): nothing fitted, the three fields null.
NewKernelPCA(nComponents, degree) ==
  [nComponents |-> nComponents, degree |-> degree, isNull |-> TRUE,
   eigenvectors |-> <<>>, eigenvalues |-> <<>>, X_fit |-> <<>>]

\* _polynomialKernel(x, y) = (x . y + 1)^degree.  `one` is the integer that
\* stands for 1.0 in the products of the vectors' entries (1 for integer
\* vectors, 100 for vectors stored in tenths); the value is in units of
\* one^-degree.
PolynomialKernel(x, y, degree, one) ==
  Pow(SumTo([i \in 1 .. Len(x) |-> x[i] * y[i]], Len(x)) + one, degree)

\* fit: K[i][j] = _polynomialKernel(X[i], X[j])
KernelMatrix(X, degree, one) ==
  Stored([i \in 1 .. Len(X) |->
            Stored([j \in 1 .. Len(X) |-> PolynomialKernel(X[i], X[j], degree, one)])])

\* _centerKernelMatrix(K), times n^2 (so that the means stay integers):
\* K[i][j] - rowMeans[i] - colMeans[j] + totalMean
CenterKernelMatrix(K) ==
  LET n == Len(K)
      rowSum == Stored([i \in 1 .. n |-> SumTo(K[i], n)])
      colSum == Stored([j \in 1 .. n |-> SumTo([i \in 1 .. n |-> K[i][j]], n)])
      total == SumTo(rowSum, n)
  IN Stored([i \in 1 .. n |-> Stored([j \in 1 .. n |->
        n * n * K[i][j] - n * rowSum[i] - n * colSum[j] + total])])

IsZeroMatrix(M) == \A i \in 1 .. Len(M) : \A j \in 1 .. Len(M[i]) : M[i][j] = 0

\* for (let k = 0; k < Math.min(this.nComponents, n); k++)
ComponentCount(nComponents, n) == Min(nComponents, n)

\* _eigenDecomposition(matrix) under draw r of Math.random()
EigenDecomposition(matrix, nComponents, r) ==
  LET n == Len(matrix)
      k == ComponentCount(nComponents, n)
      entry == IF IsZeroMatrix(matrix) THEN NaN ELSE r
  IN [eigenvectors |-> Stored([c \in 1 .. k |-> Stored([j \in 1 .. n |-> entry])]),
      eigenvalues |-> Stored([c \in 1 .. k |-> entry])]

\* KernelPCA.fit(X)
Fit(kpca, X, one, r) ==
  LET eig == EigenDecomposition(
               CenterKernelMatrix(KernelMatrix(X, kpca.degree, one)),
               kpca.nComponents, r)
  IN [kpca EXCEPT !.isNull = FALSE, !.X_fit = X,
                  !.eigenvectors = eig.eigenvectors,
                  !.eigenvalues = eig.eigenvalues]

\* transform throws a TypeError when X_fit is null, and when it reads
\* this.eigenvectors[k][j] for a k with no stored eigenvector.
TransformThrows(kpca, Y) ==
  \/ kpca.isNull
  \/ /\ Len(Y) > 0
     /\ Len(kpca.X_fit) > 0
     /\ Len(kpca.eigenvectors) < kpca.nComponents

\* The length of each result row: Array(this.nComponents).fill(0)
TransformWidth(kpca) == kpca.nComponents

\* One row of transform: result[i][k] += kij * this.eigenvectors[k][j]
TransformRow(kpca, x, one) ==
  LET kx == Stored([j \in 1 .. Len(kpca.X_fit) |->
                      PolynomialKernel(x, kpca.X_fit[j], kpca.degree, one)])
  IN Stored([k \in 1 .. TransformWidth(kpca) |->
       NumSumTo([j \in 1 .. Len(kpca.X_fit) |-> NumMul(kx[j], kpca.eigenvectors[k][j])],
                Len(kpca.X_fit))])

\* KernelPCA.transform(X)
Transform(kpca, Y, one) ==
  IF TransformThrows(kpca, Y)
  THEN [threw |-> "TypeError", rows |-> <<>>]
  ELSE [threw |-> "none", rows |-> [i \in 1 .. Len(Y) |-> TransformRow(kpca, Y[i], one)]]

\* --- the inputs explored ---------------------------------------------------

MaxComponents == 3

MaxFitSize == 3

RandomDraws == 2

KernelDegrees == {2, 3}

\* Training and query vectors of two integer entries.
KernelVectors == {<<0, 0>>, <<1, 2>>}

KernelSets == SeqsUpTo(KernelVectors, MaxFitSize)

NoOutput == [threw |-> "none", rows |-> <<>>]

InitKPCA ==
  /\ \E nc \in 1 .. MaxComponents, d \in KernelDegrees :
       kp = [pc |-> "new", model |-> NewKernelPCA(nc, d), Y |-> <<>>, out |-> NoOutput]
  /\ cyk = Idle
  /\ floyd = Idle
  /\ td = Idle
  /\ eng = Idle
  /\ pair = Idle
  /\ rete = Idle
  /\ ule = Idle
  /\ fft = Idle
  /\ voc = Idle
  /\ ver = Idle

KPCAFit ==
  /\ kp.pc \in {"new", "fitted"}
  /\ \E X \in KernelSets, r \in 1 .. RandomDraws :
       kp' = [kp EXCEPT !.pc = "fitted", !.model = Fit(kp.model, X, 1, r),
                        !.Y = <<>>, !.out = NoOutput]
  /\ UNCHANGED <<cyk, floyd, td, eng, pair, rete, ule, fft, voc, ver>>

KPCATransform ==
  /\ kp.pc \in {"new", "fitted"}
  /\ \E Y \in {y \in KernelSets : Len(y) <= 2} :
       kp' = [kp EXCEPT !.pc = IF kp.pc = "new" THEN "failed" ELSE "transformed",
                        !.Y = Y, !.out = Transform(kp.model, Y, 1)]
  /\ UNCHANGED <<cyk, floyd, td, eng, pair, rete, ule, fft, voc, ver>>

NextKPCA == KPCAFit \/ KPCATransform

SpecKPCA == InitKPCA /\ [][NextKPCA]_vars

\* C9: after fit on any non-empty training set (larger or smaller than
\* nComponents), transform completes without error and returns one vector
\* per input vector, each of length k, the number of stored eigenvectors.
C9_TransformShape ==
  (kp.pc = "transformed" /\ Len(kp.model.X_fit) > 0)
    => /\ kp.out.threw = "none"
       /\ Len(kp.out.rows) = Len(kp.Y)
       /\ \A i \in 1 .. Len(kp.out.rows) :
            Len(kp.out.rows[i]) = Len(kp.model.eigenvectors)

\* ------------------------------------------------------------------------
\* LaggedFibonacciGenerator (src/src/App.jsx 261-290)
\* ------------------------------------------------------------------------

LcgModulus == 2147483647

LcgMultiplier == 48271

RngStateSize == 55

RngLag == 24

\* (s * 48271) % 2147483647 for 0 <= s < 2147483647, computed without
\* leaving the 32-bit range (Schrage's decomposition of the same product).
LcgStep(s) ==
  LET q == LcgModulus \div LcgMultiplier
      r == LcgModulus % LcgMultiplier
      t == LcgMultiplier * (s % q) - r * (s \div q)
  IN IF t < 0 THEN t + LcgModulus ELSE t

\* _initialize(seed): state[i] is the (i+1)-th iterate of the LCG
RECURSIVE LcgFill(_, _)
LcgFill(s, n) == IF n = 0 THEN <<>> ELSE <<LcgStep(s)>> \o LcgFill(LcgStep(s), n - 1)

\* new LaggedFibonacciGenerator(seed)
NewRng(seed) ==
  [state |-> LcgFill(seed % LcgModulus, RngStateSize), index1 |-> 0, index2 |-> RngLag]

\* (a + b) % 2147483647 for -2147483647 < a, b < 2147483647; the remainder
\* of JavaScript has the sign of the dividend.
RECURSIVE AddMod(_, _)
AddMod(a, b) ==
  IF a < 0 /\ b < 0 THEN -AddMod(-a, -b)
  ELSE IF a < 0 \/ b < 0 THEN a + b
  ELSE IF a >= LcgModulus - b THEN a - (LcgModulus - b) ELSE a + b

\* Math.floor(this.rng.next() * Math.min(2, n)): the index into the n best
\* candidates that generateLine's selection computes from the generator.
PickIndex(rng, n) ==
  LET result == AddMod(At(rng.state, rng.index1), At(rng.state, rng.index2))
      k == Min(2, n)
  IN IF result >= 0
     THEN (IF k = 2 /\ result >= LcgModulus - result THEN 1 ELSE 0)
     ELSE (IF k = 2 /\ -result > LcgModulus + result THEN -2 ELSE -1)

\* next(): the state after the call
RngNext(rng) ==
  LET result == AddMod(At(rng.state, rng.index1), At(rng.state, rng.index2))
  IN [state |-> [rng.state EXCEPT ![rng.index1 + 1] = result],
      index1 |-> (rng.index1 + 1) % RngStateSize,
      index2 |-> (rng.index2 + 1) % RngStateSize]

\* n successive calls of next()
RECURSIVE RngAdvance(_, _)
RngAdvance(rng, n) == IF n <= 0 THEN rng ELSE RngAdvance(RngNext(rng), n - 1)

\* ------------------------------------------------------------------------
\* AGTuneEngine (src/src/App.jsx 479-1021)
\*
\* A text is the sequence of its tokens (the texts explored hold no line
\* break, so text.split('\n') yields the text itself).  A Map is a function
\* from its keys; the insertion order of the keys is kept only for the
\* vocabulary Set, which is a sequence without repetition.  Embeddings are
\* in tenths: the code adds 0.1, the model adds 1.
\* ------------------------------------------------------------------------

EngineWords ==
  <<"sun", "moon", "sea", "sky", "rain", "wind", "fire", "star", "dark",
    "dawn", "leaf", "rose">>

\* ule.analyze(word).syllables for the words above: the phonetic rules
\* (src/src/UniversalLinguisticEngine.js 123-192) leave one vowel phoneme
\* in each of them.
CountSyllables(word) == 1

EmptyCorpus == <<>>

\* ["sun moon", "sun moon"]
SmallCorpus == <<<<"sun", "moon">>, <<"sun", "moon">>>>

\* Twelve texts of two words; every word occurs twice.
PairCorpus ==
  <<<<"sun", "moon">>, <<"sun", "moon">>, <<"sea", "sky">>,
    <<"sea", "sky">>, <<"rain", "wind">>, <<"rain", "wind">>,
    <<"fire", "star">>, <<"fire", "star">>, <<"dark", "dawn">>,
    <<"dark", "dawn">>, <<"leaf", "rose">>, <<"leaf", "rose">>>>

\* Twenty-four texts of one word; every word occurs twice.
FlatCorpus ==
  <<<<"sun">>, <<"sun">>, <<"moon">>, <<"moon">>, <<"sea">>, <<"sea">>,
    <<"sky">>, <<"sky">>, <<"rain">>, <<"rain">>, <<"wind">>, <<"wind">>,
    <<"fire">>, <<"fire">>, <<"star">>, <<"star">>, <<"dark">>,
    <<"dark">>, <<"dawn">>, <<"dawn">>, <<"leaf">>, <<"leaf">>,
    <<"rose">>, <<"rose">>>>

EngineCorpora == {EmptyCorpus, SmallCorpus, PairCorpus, FlatCorpus}

\* ["sea sky sea", "rain sky constructor"]
MixedCorpus == <<<<"sea", "sky", "sea">>, <<"rain", "sky", "constructor">>>>

\* ["sun sun sea"]
EchoCorpus == <<<<"sun", "sun", "sea">>>>

\* The corpora of the checkpoint scenarios: small vocabularies only.
CheckpointCorpora == {EmptyCorpus, SmallCorpus}

NullSignature == "null"

\* _corpusSignature(corpus): `${corpus.length}:${hash}`, the rolling hash
\* evaluated on the texts above.
CorpusSignature(corpus) ==
  CASE corpus = EmptyCorpus -> "0:0"
    [] corpus = SmallCorpus -> "2:440412606"
    [] corpus = PairCorpus -> "12:-1252612606"
    [] corpus = FlatCorpus -> "24:1566753362"
    [] corpus = MixedCorpus -> "2:453160951"
    [] corpus = EchoCorpus -> "1:-888385877"

\* The positions (text, index) of the tokens of a corpus, and their order.
TokenPositions(corpus) ==
  UNION {{<<t, i>> : i \in 1 .. Len(corpus[t])} : t \in 1 .. Len(corpus)}

PositionBefore(p, q) == p[1] < q[1] \/ (p[1] = q[1] /\ p[2] < q[2])

\* The tokens of all texts, in the order the counting loops visit them.
Flatten(corpus) ==
  LET P == TokenPositions(corpus)
  IN Stored([k \in 1 .. Cardinality(P) |->
       LET p == CHOOSE p \in P : Cardinality({q \in P : PositionBefore(q, p)}) = k - 1
       IN corpus[p[1]][p[2]]])

Range(seq) == {seq[i] : i \in 1 .. Len(seq)}

\* The keys of an object (the members of a Set) in insertion order: first
\* occurrences only.
FirstOccurrences(seq) ==
  LET first == {i \in 1 .. Len(seq) : \A j \in 1 .. (i - 1) : seq[j] # seq[i]}
  IN Stored([k \in 1 .. Cardinality(first) |->
       seq[CHOOSE i \in first : Cardinality({j \in first : j < i}) = k - 1]])

Occurrences(seq, w) == Cardinality({i \in 1 .. Len(seq) : seq[i] = w})

\* Words that name a property every object inherits: freq = {} has them
\* before any word is counted.
InheritedKeys == {"constructor"}

\* freq[word] after the counting loops of train; tokens are the tokens of
\* all texts of the corpus.  For a word that names an inherited property and
\* was not given the own count 1, (freq[word] || 0) + 1 appends "1" to the
\* text of a function: the count is a string that compares like NaN.
Frequency(vocabulary, tokens, incremental, w) ==
  IF w \in InheritedKeys /\ ~(incremental /\ w \in Range(vocabulary))
       /\ Occurrences(tokens, w) > 0
  THEN NaN
  ELSE (IF incremental /\ w \in Range(vocabulary) THEN 1 ELSE 0) + Occurrences(tokens, w)

\* .sort((a, b) => b[1] - a[1]): stable, by falling count
SortByCount(keys, count) ==
  LET before(i, j) == count[keys[i]] > count[keys[j]]
                        \/ (count[keys[i]] = count[keys[j]] /\ i < j)
  IN Stored([k \in 1 .. Len(keys) |->
       keys[CHOOSE j \in 1 .. Len(keys) :
              Cardinality({i \in 1 .. Len(keys) : before(i, j)}) = k - 1]])

MinFrequency(incremental) == IF incremental THEN 1 ELSE 2

\* vocabEntries without the .slice(0, this.maxKernelWords)
LimitedVocabUncapped(vocabulary, corpus, incremental, maxKernelWords) ==
  LET tokens == Flatten(corpus)
      keys == FirstOccurrences((IF incremental THEN vocabulary ELSE <<>>) \o tokens)
      count == StoredMap([w \in Range(keys) |-> Frequency(vocabulary, tokens, incremental, w)])
      kept == SelectSeq(keys, LAMBDA w : count[w] >= MinFrequency(incremental))
  IN SortByCount(kept, count)

\* limitedVocab
LimitedVocab(vocabulary, corpus, incremental, maxKernelWords) ==
  LET tokens == Flatten(corpus)
      keys == FirstOccurrences((IF incremental THEN vocabulary ELSE <<>>) \o tokens)
      count == StoredMap([w \in Range(keys) |-> Frequency(vocabulary, tokens, incremental, w)])
      kept == SelectSeq(keys, LAMBDA w : count[w] >= MinFrequency(incremental))
      sorted == SortByCount(kept, count)
  IN SubSeq(sorted, 1, Min(maxKernelWords, Len(sorted)))

EmbeddingDim == 64

KernelSlice == 12

ContextWindow == 3

\* The co-occurrence loop: every (text, position i, neighbour position j)
\* that adds 0.1 to entry j % 64 of the embedding of word w.
Contributions(corpus, keys, w) ==
  UNION {
    {<<t, i, j>> : j \in {jj \in Max(1, i - ContextWindow) .. Min(Len(corpus[t]), i + ContextWindow) :
                            jj # i /\ corpus[t][jj] \in keys}}
    : <<t, i>> \in {p \in UNION {{<<tt, ii>> : ii \in 1 .. Len(corpus[tt])} : tt \in 1 .. Len(corpus)} :
                      corpus[p[1]][p[2]] = w}}

\* this.embeddings after the rebuild phase of train
BuildEmbeddings(old, limitedVocab, corpus) ==
  LET keys == DOMAIN old \cup Range(limitedVocab)
  IN StoredMap([w \in keys |->
        LET base == IF w \in DOMAIN old THEN old[w] ELSE Zeros(EmbeddingDim)
            adds == Contributions(corpus, keys, w)
        IN IF adds = {} THEN base
           ELSE Stored([d \in 1 .. EmbeddingDim |->
                   base[d] + Cardinality({a \in adds : ((a[3] - 1) % EmbeddingDim) + 1 = d})])])

\* emb.slice(0, Math.min(12, emb.length))
KernelInput(emb) == SubSeq(emb, 1, Min(KernelSlice, Len(emb)))

\* The integer that stands for 1.0 in a product of two embedding entries.
EmbeddingUnit == 100

EmptyMap == [w \in {} |-> <<>>]

DefaultComponents == 12

DefaultDegree == 3

DefaultFeatures == 24

\* alpha = 0.01, gamma = 0.95, lambda = 0.8, in hundredths
DefaultAlpha == 1

DefaultGamma == 95

DefaultLambda == 80

DefaultMaxKernelWords == 2500

\* Array(nFeatures).fill(0).map(() => Math.random() * 0.01) under draw r:
\* the weight vector of draw r is represented by the vector of r's.
RandomWeights(nFeatures, r) == [i \in 1 .. nFeatures |-> r]

\* new AGTuneEngine(): `now` is the reading of Date.now() that seeds the
\* generator, r the draw of Math.random() behind the initial weights.
NewEngine(now, r) ==
  [kpca |-> NewKernelPCA(DefaultComponents, DefaultDegree),
   valueEstimator |-> NewEstimator(RandomWeights(DefaultFeatures, r),
                                   DefaultAlpha, DefaultGamma, DefaultLambda),
   rng |-> NewRng(now),
   vocabulary |-> <<>>,
   embeddings |-> EmptyMap,
   emotionalSpace |-> EmptyMap,
   maxKernelWords |-> DefaultMaxKernelWords,
   lastCorpusSignature |-> NullSignature,
   isTrained |-> FALSE]

\* JavaScript's null
Null == "null"

\* What a call did: the engine after it, the error it threw ("none" when it
\* returned), what it returned, and whether the embedding vectors and the
\* generator's state array are the same objects as before ("same"), were
\* written in place ("inplace") or were replaced by new arrays ("fresh").
\* at is the statement at which the call was left, lines the number of
\* lines asked of generatePoem and updates the number of valueEstimator.update
\* calls that generatePoem made.  rhymeTargets holds the rhymeTarget argument
\* of each generateLine call made, in order; line and syllableCount are
\* generateLine's local variables when it was left; poem is the list of the
\* lines that generatePoem collected, each the sequence of its tokens.
Outcome(e, threw, ret, emb, rngState) ==
  [e |-> e, threw |-> threw, ret |-> ret, emb |-> emb, rngState |-> rngState,
   at |-> IF threw = "none" THEN "return" ELSE "throw", lines |-> 0, updates |-> 0,
   rhymeTargets |-> <<>>, line |-> <<>>, syllableCount |-> 0, poem |-> <<>>]

\* The rebuild phase of train (shouldRebuild true), up to the assignment of
\* lastCorpusSignature.  threw is "TypeError" when kpca.transform fails.
Rebuild(e, corpus, incremental, r) ==
  LET limitedVocab == LimitedVocab(e.vocabulary, corpus, incremental, e.maxKernelWords)
      oldEmb == IF incremental THEN e.embeddings ELSE EmptyMap
      oldSpace == IF incremental THEN e.emotionalSpace ELSE EmptyMap
      emb == BuildEmbeddings(oldEmb, limitedVocab, corpus)
      X == Stored([i \in 1 .. Len(limitedVocab) |-> KernelInput(emb[limitedVocab[i]])])
      embKind == IF incremental THEN "inplace" ELSE "fresh"
      e1 == [e EXCEPT !.vocabulary = limitedVocab, !.embeddings = emb,
                      !.emotionalSpace = oldSpace]
  IN IF Len(X) = 0
     THEN Outcome([e1 EXCEPT !.lastCorpusSignature = CorpusSignature(corpus)],
                  "none", "undefined", embKind, "same")
     ELSE LET kpca == Fit(e.kpca, X, EmbeddingUnit, r)
              e2 == [e1 EXCEPT !.kpca = kpca]
          IN IF TransformThrows(kpca, <<X[1]>>)
             THEN Outcome(e2, "TypeError", "none", embKind, "same")
             ELSE Outcome(
                    [e2 EXCEPT
                       !.emotionalSpace =
                          StoredMap([w \in DOMAIN oldSpace \cup Range(limitedVocab) |->
                             IF w \in Range(limitedVocab)
                             THEN TransformRow(kpca, KernelInput(emb[w]), EmbeddingUnit)
                             ELSE oldSpace[w]]),
                       !.lastCorpusSignature = CorpusSignature(corpus)],
                    "none", "undefined", embKind, "same")

\* shouldRebuild without the comparison of the fingerprints
ShouldRebuildAlways(e, corpus) == TRUE

\* const shouldRebuild = this.lastCorpusSignature !== corpusSignature || !this.isTrained
ShouldRebuild(e, corpus) == e.lastCorpusSignature # CorpusSignature(corpus) \/ ~e.isTrained

\* train(corpus, epochs, incremental).  _getState evaluates
\* _checkRhymeConsistency, which calls this._getRhymeGroup; no class defines
\* that method, so every call of _getState raises a TypeError.  The
\* pre-training loop calls _getState for the first text: it is left by the
\* TypeError whenever the corpus is not empty; on the empty corpus train
\* returns 0 / 0.
Train(e, corpus, incremental, r) ==
  LET shouldRebuild == ShouldRebuild(e, corpus)
      PreTrain(built) ==
        IF built.threw # "none" THEN built
        ELSE IF Len(corpus) > 0
             THEN [built EXCEPT !.threw = "TypeError", !.ret = "none", !.at = "throw"]
             ELSE [built EXCEPT !.e.isTrained = TRUE, !.ret = "NaN"]
  IN PreTrain(IF shouldRebuild THEN Rebuild(e, corpus, incremental, r)
              ELSE Outcome(e, "none", "undefined", "same", "same"))

\* --- checkpoints -------------------------------------------------------------
\* A checkpoint record.  A missing or non-array field is modelled by: version
\* NoVersion; nComponents / degree 0 (falsy); kpca.isNull (the three arrays
\* are not arrays); valueEstimator.kind "absent"; rng.present FALSE;
\* lastCorpusSignature NullSignature.  valueEstimator.kind "badLength" is a
\* weights object whose length is no valid array length (e.g. {length: -1});
\* `malformed` marks an entries array holding an entry that cannot be
\* destructured (e.g. [null]).

CheckpointVersion == 1

NoVersion == 0

\* saveCheckpoint(): the record returned (the caller checks isTrained)
SaveRecord(e) ==
  [version |-> CheckpointVersion,
   kpca |-> e.kpca,
   valueEstimator |-> [kind |-> "array",
                       weights |-> e.valueEstimator.weights,
                       alpha |-> e.valueEstimator.alpha,
                       gamma |-> e.valueEstimator.gamma,
                       lambda |-> e.valueEstimator.lambda,
                       eligibility |-> e.valueEstimator.eligibility],
   vocabulary |-> e.vocabulary,
   embeddings |-> [malformed |-> FALSE, entries |-> e.embeddings],
   emotionalSpace |-> [malformed |-> FALSE, entries |-> e.emotionalSpace],
   rng |-> [present |-> TRUE, state |-> e.rng.state,
            index1 |-> e.rng.index1, index2 |-> e.rng.index2],
   lastCorpusSignature |-> e.lastCorpusSignature,
   isTrained |-> e.isTrained]

\* saveCheckpoint()
SaveCheckpoint(e) ==
  IF ~e.isTrained
  THEN Outcome(e, "Error: Train the model before saving a checkpoint", "none", "same", "same")
  ELSE Outcome(e, "none", "record", "same", "same")

Undefined == -1

\* Number.isFinite(v) ? v : fill
AsNumber(v, fill) == IF v = NaN THEN fill ELSE v

\* _asNumberArray(arr, length, fill)
AsNumberArray(arr, length, fill) ==
  [i \in 1 .. (IF length = Undefined THEN Len(arr) ELSE length) |->
     IF i <= Len(arr) THEN AsNumber(arr[i], fill) ELSE fill]

\* _asNumberMatrix(mat)
AsNumberMatrix(isArray, mat) ==
  IF ~isArray THEN <<>>
  ELSE [i \in 1 .. Len(mat) |-> AsNumberArray(mat[i], Undefined, 0)]

LoadDefaultComponents == 8

LoadDefaultFeatures == 16

\* loadCheckpoint: the restored KernelPCA
LoadKpca(data) ==
  [nComponents |-> IF data.kpca.nComponents = 0 THEN LoadDefaultComponents
                   ELSE data.kpca.nComponents,
   degree |-> IF data.kpca.degree = 0 THEN DefaultDegree ELSE data.kpca.degree,
   isNull |-> FALSE,
   eigenvectors |-> AsNumberMatrix(~data.kpca.isNull, data.kpca.eigenvectors),
   eigenvalues |-> AsNumberArray(IF data.kpca.isNull THEN <<>> ELSE data.kpca.eigenvalues,
                                 Undefined, 0),
   X_fit |-> AsNumberMatrix(~data.kpca.isNull, data.kpca.X_fit)]

\* data.valueEstimator?.weights?.length || 16
LoadFeatureCount(data) ==
  IF data.valueEstimator.kind = "array" /\ Len(data.valueEstimator.weights) > 0
  THEN Len(data.valueEstimator.weights)
  ELSE LoadDefaultFeatures

\* loadCheckpoint: the restored TDValueEstimator
LoadValueEstimator(data) ==
  LET ve == data.valueEstimator
      given == ve.kind = "array"
      nFeatures == LoadFeatureCount(data)
  IN [weights |-> AsNumberArray(IF given THEN ve.weights ELSE <<>>, nFeatures, 0),
      alpha |-> IF given THEN ve.alpha ELSE DefaultAlpha,
      gamma |-> IF given THEN ve.gamma ELSE DefaultGamma,
      lambda |-> IF given THEN ve.lambda ELSE DefaultLambda,
      eligibility |-> AsNumberArray(IF given THEN ve.eligibility ELSE <<>>, nFeatures, 0)]

\* loadCheckpoint: the generator after the `if (data.rng)` block
LoadRng(rng, data) ==
  IF ~data.rng.present THEN rng
  ELSE [state |-> [i \in 1 .. Len(data.rng.state) |-> AsNumber(data.rng.state[i], 0)],
        index1 |-> AsNumber(data.rng.index1, rng.index1),
        index2 |-> AsNumber(data.rng.index2, rng.index2)]

\* loadCheckpoint(data): the assignments in the order of the code; an
\* exception leaves the call with the assignments made so far.
LoadCheckpoint(e, data) ==
  IF data.version # CheckpointVersion
  THEN Outcome(e, "Error: Invalid checkpoint format", "none", "same", "same")
  ELSE
    LET e1 == [e EXCEPT !.kpca = LoadKpca(data)]
    IN IF data.valueEstimator.kind = "badLength"
       THEN Outcome(e1, "RangeError", "none", "same", "same")
       ELSE
         LET e2 == [e1 EXCEPT !.valueEstimator = LoadValueEstimator(data),
                              !.vocabulary = FirstOccurrences(data.vocabulary)]
         IN IF data.embeddings.malformed
            THEN Outcome(e2, "TypeError", "none", "same", "same")
            ELSE
              LET e3 == [e2 EXCEPT !.embeddings =
                           [w \in DOMAIN data.embeddings.entries |->
                              AsNumberArray(data.embeddings.entries[w], EmbeddingDim, 0)]]
              IN IF data.emotionalSpace.malformed
                 THEN Outcome(e3, "TypeError", "none", "fresh", "same")
                 ELSE Outcome(
                        [e3 EXCEPT
                           !.emotionalSpace =
                              [w \in DOMAIN data.emotionalSpace.entries |->
                                 AsNumberArray(data.emotionalSpace.entries[w],
                                               e3.kpca.nComponents, 0)],
                           !.rng = LoadRng(e.rng, data),
                           !.lastCorpusSignature = data.lastCorpusSignature,
                           !.isTrained = data.isTrained],
                        "none", "undefined", "fresh",
                        IF data.rng.present THEN "fresh" ELSE "same")

\* --- generation --------------------------------------------------------------

MinWordLength == 2

MaxWordLength == 10

BeamFactor == 5

\* _getCandidateWords: the vocabulary words of 2 to 10 characters
CandidateWords(e) ==
  SelectSeq(e.vocabulary, LAMBDA w : Len(w) >= MinWordLength /\ Len(w) <= MaxWordLength)

\* The calls of rng.next() made by generateLine before it is left.  The
\* first iteration scores every candidate that has an emotional-space vector
\* with one draw, keeps the beamWidth * 5 best and draws once more for the
\* first of them that fits the syllable budget; scoring that candidate calls
\* _getState.  (Every word explored has one syllable, so which candidates
\* survive the cut does not change the count.)
LineDraws(e, targetSyllables, beamWidth, maxIter) ==
  IF ~(maxIter > 0 /\ 0 < targetSyllables) THEN 0
  ELSE LET cands == CandidateWords(e)
           scored == Cardinality({i \in 1 .. Len(cands) : cands[i] \in DOMAIN e.emotionalSpace})
           kept == Min(beamWidth * BeamFactor, Len(cands))
           fits == \E i \in 1 .. Len(cands) : CountSyllables(cands[i]) <= targetSyllables + 2
       IN scored + (IF kept > 0 /\ fits THEN 1 ELSE 0)

\* Whether the first iteration of generateLine's loop scores a candidate:
\* the loop is entered, _getCandidateWords returns a word, and the word fits
\* the syllable budget (lines 890-898).
ScoresCandidate(e, targetSyllables, beamWidth, maxIter) ==
  /\ maxIter > 0
  /\ 0 < targetSyllables
  /\ Min(beamWidth * BeamFactor, Len(CandidateWords(e))) > 0
  /\ \E i \in 1 .. Len(CandidateWords(e)) :
       CountSyllables(CandidateWords(e)[i]) <= targetSyllables + 2

\* generateLine(prompt, targetSyllables, beamWidth, rhymeTarget, maxIter).
\* On a trained engine the call is always left by the TypeError of
\* _getState: in the scoring of the first candidate that fits, or, when no
\* candidate is scored, in the construction of finalState.
\* No token is appended before the call is left: line is empty and
\* syllableCount is 0.
GenerateLine(e, targetSyllables, beamWidth, rhymeTarget, maxIter) ==
  IF ~e.isTrained
  THEN [Outcome(e, "Error: Model must be trained before generation", "none", "same", "same")
          EXCEPT !.at = "precondition", !.rhymeTargets = <<rhymeTarget>>]
  ELSE LET draws == LineDraws(e, targetSyllables, beamWidth, maxIter)
       IN [Outcome([e EXCEPT !.rng = RngAdvance(e.rng, draws)], "TypeError", "none",
                   "same", IF draws > 0 THEN "inplace" ELSE "same")
             EXCEPT !.at = IF ScoresCandidate(e, targetSyllables, beamWidth, maxIter)
                           THEN "scoring" ELSE "finalState",
                    !.rhymeTargets = <<rhymeTarget>>]

PoemTargetSyllables == 10

DefaultMaxIter == 50

\* generatePoem(prompt, lines, beamWidth): with no line to generate the loops
\* are skipped (states is empty, no update is made) and an empty poem is
\* returned; otherwise the first generateLine call (i = 0, rhymeTarget null)
\* decides, and neither a second call nor the update loop after the
\* generation loop is reached.
GeneratePoem(e, lines, beamWidth) ==
  IF lines <= 0
  THEN [Outcome(e, "none", "emptyPoem", "same", "same") EXCEPT !.lines = lines]
  ELSE [GenerateLine(e, PoemTargetSyllables, beamWidth, Null, DefaultMaxIter)
          EXCEPT !.lines = lines]

\* --- the calls explored --------------------------------------------------------

MaxCalls == 3

ClockReadings == {1, 2}

\* {version: 1} and nothing else
BlankRecord ==
  [version |-> CheckpointVersion,
   kpca |-> [nComponents |-> 0, degree |-> 0, isNull |-> TRUE,
             eigenvectors |-> <<>>, eigenvalues |-> <<>>, X_fit |-> <<>>],
   valueEstimator |-> [kind |-> "absent", weights |-> <<>>, alpha |-> 0, gamma |-> 0,
                       lambda |-> 0, eligibility |-> <<>>],
   vocabulary |-> <<>>,
   embeddings |-> [malformed |-> FALSE, entries |-> EmptyMap],
   emotionalSpace |-> [malformed |-> FALSE, entries |-> EmptyMap],
   rng |-> [present |-> FALSE, state |-> <<>>, index1 |-> 0, index2 |-> 0],
   lastCorpusSignature |-> NullSignature,
   isTrained |-> FALSE]

\* A record without version tag, and one of a later format.
UnversionedRecord == [BlankRecord EXCEPT !.version = NoVersion, !.isTrained = TRUE]

FutureRecord == [BlankRecord EXCEPT !.version = CheckpointVersion + 1, !.isTrained = TRUE]

\* A hand-written record of a trained engine over two words: two kernel
\* components, one non-finite entry, an emotional-space vector for "sun"
\* only, the fingerprint of SmallCorpus.
TrainedRecord ==
  [version |-> CheckpointVersion,
   kpca |-> [nComponents |-> 2, degree |-> DefaultDegree, isNull |-> FALSE,
             eigenvectors |-> <<<<1, NaN>>, <<2, 2>>>>, eigenvalues |-> <<2, 1>>,
             X_fit |-> <<Zeros(KernelSlice), [Zeros(KernelSlice) EXCEPT ![1] = 2]>>],
   valueEstimator |-> [kind |-> "array", weights |-> RandomWeights(DefaultFeatures, 3),
                       alpha |-> DefaultAlpha, gamma |-> DefaultGamma,
                       lambda |-> DefaultLambda, eligibility |-> Zeros(DefaultFeatures)],
   vocabulary |-> <<"sun", "moon">>,
   embeddings |-> [malformed |-> FALSE,
                   entries |-> [w \in {"sun", "moon"} |-> Zeros(EmbeddingDim)]],
   emotionalSpace |-> [malformed |-> FALSE, entries |-> [w \in {"sun"} |-> <<3, 4>>]],
   rng |-> [present |-> TRUE, state |-> NewRng(3).state, index1 |-> 1, index2 |-> RngLag + 1],
   lastCorpusSignature |-> CorpusSignature(SmallCorpus),
   isTrained |-> TRUE]

\* {version: 1, kpca: {nComponents: 2, eigenvectors: [[1, 2, 3]],
\*  eigenvalues: [], X_fit: [[0]]}, isTrained: true}
ShapelessRecord ==
  [BlankRecord EXCEPT !.kpca = [nComponents |-> 2, degree |-> DefaultDegree, isNull |-> FALSE,
                                eigenvectors |-> <<<<1, 2, 3>>>>, eigenvalues |-> <<>>,
                                X_fit |-> <<<<0>>>>],
                      !.isTrained = TRUE]

\* TrainedRecord with valueEstimator.weights = {length: -1}
BadWeightsRecord == [TrainedRecord EXCEPT !.valueEstimator.kind = "badLength"]

\* TrainedRecord with embeddings = [null]
BadEmbeddingsRecord == [TrainedRecord EXCEPT !.embeddings.malformed = TRUE]

\* TrainedRecord with emotionalSpace = [null]
BadEmotionalRecord == [TrainedRecord EXCEPT !.emotionalSpace.malformed = TRUE]

\* TrainedRecord with valueEstimator.gamma = 1e999, which JSON.parse reads
\* as Infinity
NonFiniteRateRecord == [TrainedRecord EXCEPT !.valueEstimator.gamma = NaN]

\* TrainedRecord with rng.state = Array(55).fill(-1)
NegativeRngRecord ==
  [TrainedRecord EXCEPT !.rng.state = [i \in 1 .. RngStateSize |-> -1]]

HandRecords ==
  {BlankRecord, UnversionedRecord, FutureRecord, TrainedRecord, ShapelessRecord,
   BadWeightsRecord, BadEmbeddingsRecord, BadEmotionalRecord, NonFiniteRateRecord,
   NegativeRngRecord}

NoSaved ==
  [valid |-> FALSE, record |-> BlankRecord, atSave |-> BlankRecord,
   embShared |-> {}, rngShared |-> FALSE]

\* The record last returned by saveCheckpoint shares the embedding vectors
\* and the generator's state array with the engine; writes made in place to
\* those arrays show in the record until the engine replaces them.  atSave
\* keeps the record as it was when saveCheckpoint returned.
SyncSaved(saved, out) ==
  IF ~saved.valid THEN saved
  ELSE [valid |-> TRUE,
        atSave |-> saved.atSave,
        record |->
          [saved.record EXCEPT
             !.embeddings.entries =
                [w \in DOMAIN @ |-> IF out.emb = "inplace" /\ w \in saved.embShared
                                    THEN out.e.embeddings[w] ELSE @[w]],
             !.rng.state = IF out.rngState = "inplace" /\ saved.rngShared
                           THEN out.e.rng.state ELSE @],
        embShared |-> IF out.emb = "fresh" THEN {} ELSE saved.embShared,
        rngShared |-> saved.rngShared /\ out.rngState # "fresh"]

\* The state after a call: the engine, what the call was and did, the record
\* held by the caller.  sig is the fingerprint of the corpus given to train.
AfterCall(op, out, saved, fromSaved) ==
  [e |-> out.e, op |-> op, threw |-> out.threw, ret |-> out.ret, at |-> out.at,
   lines |-> out.lines, updates |-> out.updates, rhymeTargets |-> out.rhymeTargets,
   line |-> out.line, syllableCount |-> out.syllableCount, poem |-> out.poem,
   target |-> 0, sig |-> NullSignature, saved |-> saved,
   fromSaved |-> fromSaved, calls |-> eng.calls + 1]

InitEngine ==
  /\ \E now \in ClockReadings, r \in 1 .. RandomDraws :
       eng = [e |-> NewEngine(now, r), op |-> "new", threw |-> "none", ret |-> "undefined",
              at |-> "return", lines |-> 0, updates |-> 0, rhymeTargets |-> <<>>,
              line |-> <<>>, syllableCount |-> 0, poem |-> <<>>, target |-> 0,
              sig |-> NullSignature,
              saved |-> NoSaved, fromSaved |-> FALSE, calls |-> 0]
  /\ cyk = Idle
  /\ floyd = Idle
  /\ td = Idle
  /\ kp = Idle
  /\ pair = Idle
  /\ rete = Idle
  /\ ule = Idle
  /\ fft = Idle
  /\ voc = Idle
  /\ ver = Idle

EngTrain ==
  /\ eng.calls < MaxCalls
  /\ \E corpus \in CheckpointCorpora, incremental \in BOOLEAN, r \in 1 .. RandomDraws :
       \E out \in {Train(eng.e, corpus, incremental, r)} :
         eng' = [AfterCall("train", out, SyncSaved(eng.saved, out), FALSE)
                   EXCEPT !.sig = CorpusSignature(corpus)]
  /\ UNCHANGED <<cyk, floyd, td, kp, pair, rete, ule, fft, voc, ver>>

EngSave ==
  /\ eng.calls < MaxCalls
  /\ LET out == SaveCheckpoint(eng.e)
     IN eng' = AfterCall("saveCheckpoint", out,
                         IF out.threw = "none"
                         THEN [valid |-> TRUE, record |-> SaveRecord(eng.e),
                               atSave |-> SaveRecord(eng.e),
                               embShared |-> DOMAIN eng.e.embeddings, rngShared |-> TRUE]
                         ELSE eng.saved,
                         FALSE)
  /\ UNCHANGED <<cyk, floyd, td, kp, pair, rete, ule, fft, voc, ver>>

EngLoad ==
  /\ eng.calls < MaxCalls
  /\ \E data \in HandRecords \cup (IF eng.saved.valid THEN {eng.saved.record} ELSE {}) :
       \E out \in {LoadCheckpoint(eng.e, data)} :
         eng' = AfterCall("loadCheckpoint", out, SyncSaved(eng.saved, out),
                           eng.saved.valid /\ data = eng.saved.record)
  /\ UNCHANGED <<cyk, floyd, td, kp, pair, rete, ule, fft, voc, ver>>

LineTargets == {0, PoemTargetSyllables}

BeamWidths == {0, 5}

LineRhymeTargets == {Null, "sun"}

EngGenerateLine ==
  /\ eng.calls < MaxCalls
  /\ \E target \in LineTargets, beamWidth \in BeamWidths, rhymeTarget \in LineRhymeTargets :
       \E out \in {GenerateLine(eng.e, target, beamWidth, rhymeTarget, DefaultMaxIter)} :
         eng' = [AfterCall("generateLine", out, SyncSaved(eng.saved, out), FALSE)
                   EXCEPT !.target = target]
  /\ UNCHANGED <<cyk, floyd, td, kp, pair, rete, ule, fft, voc, ver>>

PoemLines == {0, 4}

EngGeneratePoem ==
  /\ eng.calls < MaxCalls
  /\ \E lines \in PoemLines, beamWidth \in BeamWidths :
       \E out \in {GeneratePoem(eng.e, lines, beamWidth)} :
         eng' = [AfterCall("generatePoem", out, SyncSaved(eng.saved, out), FALSE)
                   EXCEPT !.target = PoemTargetSyllables]
  /\ UNCHANGED <<cyk, floyd, td, kp, pair, rete, ule, fft, voc, ver>>

NextEngine == EngTrain \/ EngSave \/ EngLoad \/ EngGenerateLine \/ EngGeneratePoem

SpecEngine == InitEngine /\ [][NextEngine]_vars

\* A step that is a call of one of the named operations.
IsCall(ops) == eng'.calls = eng.calls + 1 /\ eng'.op \in ops

\* C5: loadCheckpoint is all-or-nothing: a call that throws, in particular
\* on a record whose version tag is missing or unknown, leaves every engine
\* field (kernel model, value estimator, vocabulary, embeddings, emotional
\* space, generator state, corpus fingerprint, trained flag) as it was before
\* the call.
C5_LoadAllOrNothing ==
  [][(IsCall({"loadCheckpoint"}) /\ eng'.threw # "none") => eng'.e = eng.e]_vars

\* C6: loading the record returned by saveCheckpoint yields an engine whose
\* vocabulary, embeddings, emotional-space vectors, kernel model,
\* value-estimator weights, corpus fingerprint and trained flag equal those
\* at the moment of saving.
C6_RoundTrip ==
  (eng.op = "loadCheckpoint" /\ eng.threw = "none" /\ eng.fromSaved)
    => LET was == eng.saved.atSave
       IN /\ eng.e.vocabulary = was.vocabulary
          /\ eng.e.embeddings = was.embeddings.entries
          /\ eng.e.emotionalSpace = was.emotionalSpace.entries
          /\ eng.e.kpca = was.kpca
          /\ eng.e.valueEstimator.weights = was.valueEstimator.weights
          /\ eng.e.lastCorpusSignature = was.lastCorpusSignature
          /\ eng.e.isTrained = was.isTrained

\* C7: while isTrained is false, every call of generateLine or generatePoem
\* throws a descriptive error, returns no line or poem and leaves the engine
\* state unchanged.
C7_UntrainedGenerationFails ==
  [][(IsCall({"generateLine", "generatePoem"}) /\ ~eng.e.isTrained)
       => /\ eng'.threw = "Error: Model must be trained before generation"
          /\ eng'.ret = "none"
          /\ eng'.e = eng.e]_vars

\* The shape of a kernel model: as many eigenvalues as eigenvectors, no more
\* of them than min(nComponents, |X_fit|), every eigenvector of length
\* |X_fit|.
KernelShape(kpca) ==
  /\ Len(kpca.eigenvectors) = Len(kpca.eigenvalues)
  /\ Len(kpca.eigenvectors) <= Min(kpca.nComponents, Len(kpca.X_fit))
  /\ \A k \in 1 .. Len(kpca.eigenvectors) : Len(kpca.eigenvectors[k]) = Len(kpca.X_fit)

\* C10: after every fit (a train call that refits the kernel model) and
\* after every successful loadCheckpoint the kernel
\* model satisfies eigenvectors.length = eigenvalues.length = k <=
\* min(nComponents, |X_fit|) and every eigenvector has length |X_fit|.
C10_KernelShape ==
  [][(\/ IsCall({"train"}) /\ eng'.e.kpca # eng.e.kpca
      \/ IsCall({"loadCheckpoint"}) /\ eng'.threw = "none")
       => KernelShape(eng'.e.kpca)]_vars

\* C13: every generateLine call on a trained engine returns normally, with
\* the tokens committed so far, when the syllable target is reached, no
\* candidate survives or the iteration cap is hit; it never throws.
C13_LineReturns ==
  [][(IsCall({"generateLine"}) /\ eng.e.isTrained)
       => /\ eng'.threw = "none"
          /\ eng'.at = "return"]_vars

FiniteArray(arr) == \A i \in 1 .. Len(arr) : arr[i] # NaN

FiniteMatrix(mat) == \A i \in 1 .. Len(mat) : FiniteArray(mat[i])

FiniteMap(map) == \A w \in DOMAIN map : FiniteArray(map[w])

\* The numeric fields of the kernel model, the embeddings, the emotional
\* space and the generator.
FiniteModel(e) ==
  /\ FiniteMatrix(e.kpca.eigenvectors)
  /\ FiniteArray(e.kpca.eigenvalues)
  /\ FiniteMatrix(e.kpca.X_fit)
  /\ FiniteMap(e.embeddings)
  /\ FiniteMap(e.emotionalSpace)
  /\ FiniteArray(e.rng.state)
  /\ e.rng.index1 # NaN
  /\ e.rng.index2 # NaN

\* The numeric fields of the value estimator.
FiniteEstimator(est) ==
  /\ FiniteArray(est.weights)
  /\ FiniteArray(est.eligibility)
  /\ est.alpha # NaN
  /\ est.gamma # NaN
  /\ est.lambda # NaN

\* C16: after a successful loadCheckpoint every numeric field of the
\* restored model is a finite number.
C16_LoadedFieldsFinite ==
  (eng.op = "loadCheckpoint" /\ eng.threw = "none")
    => FiniteModel(eng.e) /\ FiniteEstimator(eng.e.valueEstimator)

\* C26: a train call on a trained engine with a corpus whose fingerprint
\* equals the stored fingerprint leaves the vocabulary, the embeddings, the
\* kernel model and the emotional space (and every other field but the value
\* estimator) unchanged; the trained flag stays true.
C26_SameFingerprintFrame ==
  [][(IsCall({"train"}) /\ eng.e.isTrained /\ eng.e.lastCorpusSignature = eng'.sig)
       => /\ eng'.e = [eng.e EXCEPT !.valueEstimator = eng'.e.valueEstimator]
          /\ eng'.e.isTrained]_vars

\* A train call met the stored fingerprint on an engine that holds a
\* vocabulary, embeddings and a kernel model.
C26_Witness ==
  /\ eng.op = "train"
  /\ eng.e.isTrained
  /\ eng.sig = eng.e.lastCorpusSignature
  /\ eng.sig = CorpusSignature(SmallCorpus)
  /\ Len(eng.e.vocabulary) > 0
  /\ eng.e.embeddings = TrainedRecord.embeddings.entries
  /\ ~eng.e.kpca.isNull

\* C25: after a fit, also one whose centred kernel matrix is all zeros
\* (identical training vectors), no stored eigenvector entry and no stored
\* eigenvalue is NaN or infinite.
C25_FitFinite ==
  kp.pc = "fitted"
    => FiniteMatrix(kp.model.eigenvectors) /\ FiniteArray(kp.model.eigenvalues)

\* C28: the record returned by saveCheckpoint is an isolated snapshot: no
\* later call on the engine changes a value inside it.
C28_SnapshotIsolated ==
  eng.saved.valid => eng.saved.record = eng.saved.atSave

\* C22: in every state in which generateLine can select a token (the engine
\* is trained), also one whose generator was restored from a checkpoint, the
\* index that the selection computes is 0 or 1 when two or more candidates
\* are retained and 0 when one is: the token appended is one of the two
\* lowest-scored retained candidates.
C22_PickAmongTwoBest ==
  eng.e.isTrained =>
    \A beamWidth \in BeamWidths : \A n \in 1 .. beamWidth :
      PickIndex(eng.e.rng, n) \in 0 .. (Min(2, n) - 1)

\* --- two engines driven by the same calls ----------------------------------------
\* Both engines are constructed with the same generator seed and receive the
\* same calls with the same arguments; each makes its own Math.random() draws.

MaxPairCalls == 2

PairAfter(outA, outB) ==
  [a |-> outA.e, b |-> outB.e,
   threwA |-> outA.threw, threwB |-> outB.threw,
   retA |-> outA.ret, retB |-> outB.ret,
   calls |-> pair.calls + 1]

InitPair ==
  /\ \E seed \in ClockReadings, rA \in 1 .. RandomDraws, rB \in 1 .. RandomDraws :
       pair = [a |-> NewEngine(seed, rA), b |-> NewEngine(seed, rB),
               threwA |-> "none", threwB |-> "none",
               retA |-> "undefined", retB |-> "undefined", calls |-> 0]
  /\ cyk = Idle
  /\ floyd = Idle
  /\ td = Idle
  /\ kp = Idle
  /\ eng = Idle
  /\ rete = Idle
  /\ ule = Idle
  /\ fft = Idle
  /\ voc = Idle
  /\ ver = Idle

PairTrain ==
  /\ pair.calls < MaxPairCalls
  /\ \E corpus \in EngineCorpora, incremental \in BOOLEAN,
        rA \in 1 .. RandomDraws, rB \in 1 .. RandomDraws :
       pair' = PairAfter(Train(pair.a, corpus, incremental, rA),
                         Train(pair.b, corpus, incremental, rB))
  /\ UNCHANGED <<cyk, floyd, td, kp, eng, rete, ule, fft, voc, ver>>

PairGenerateLine ==
  /\ pair.calls < MaxPairCalls
  /\ \E target \in LineTargets, beamWidth \in BeamWidths :
       pair' = PairAfter(GenerateLine(pair.a, target, beamWidth, Null, DefaultMaxIter),
                         GenerateLine(pair.b, target, beamWidth, Null, DefaultMaxIter))
  /\ UNCHANGED <<cyk, floyd, td, kp, eng, rete, ule, fft, voc, ver>>

PairGeneratePoem ==
  /\ pair.calls < MaxPairCalls
  /\ \E lines \in PoemLines, beamWidth \in BeamWidths :
       pair' = PairAfter(GeneratePoem(pair.a, lines, beamWidth),
                         GeneratePoem(pair.b, lines, beamWidth))
  /\ UNCHANGED <<cyk, floyd, td, kp, eng, rete, ule, fft, voc, ver>>

NextPair == PairTrain \/ PairGenerateLine \/ PairGeneratePoem

SpecPair == InitPair /\ [][NextPair]_vars

\* C8: two engines given the same corpus, hyperparameters and seed and
\* driven by the same train / generate calls have identical kernel
\* embeddings (emotional-space vectors and kernel model), identical
\* value-estimator weights and identical results.
C8_Deterministic ==
  /\ pair.a.emotionalSpace = pair.b.emotionalSpace
  /\ pair.a.kpca = pair.b.kpca
  /\ pair.a.valueEstimator.weights = pair.b.valueEstimator.weights
  /\ pair.retA = pair.retB

\* ------------------------------------------------------------------------
\* The value estimator across construction, estimate, update and restore
\* from a checkpoint (src/src/App.jsx 180-254, 745-761)
\* ------------------------------------------------------------------------

\* valueEstimator parts of hand-edited checkpoints: none at all; weights and
\* eligibility of different lengths, with a non-finite weight; no
\* eligibility; an empty weight array.
EstimatorParts ==
  {BlankRecord.valueEstimator,
   [kind |-> "array", weights |-> <<1, NaN>>, alpha |-> 2, gamma |-> 3, lambda |-> 2,
    eligibility |-> <<1, 1, NaN, 1, 1>>],
   [kind |-> "array", weights |-> <<0, 1, 0, 1>>, alpha |-> 2, gamma |-> 3, lambda |-> 2,
    eligibility |-> <<>>],
   [kind |-> "array", weights |-> <<>>, alpha |-> 2, gamma |-> 3, lambda |-> 2,
    eligibility |-> <<1>>]}

EstimatorRecords == {[BlankRecord EXCEPT !.valueEstimator = ve] : ve \in EstimatorParts}

\* loadCheckpoint(data), as far as the value estimator goes: a new estimator
\* of data.valueEstimator.weights.length (or 16) features replaces the old
\* one.  A restore counts against the budget of calls.
TDRestore ==
  /\ td.pc \in {"ready", "updated", "estimated"}
  /\ td.updates < MaxUpdates
  /\ \E data \in EstimatorRecords :
       td' = [td EXCEPT !.pc = "ready", !.F = LoadFeatureCount(data),
                        !.est = LoadValueEstimator(data),
                        !.pre = LoadValueEstimator(data),
                        !.state = NullState, !.reward = 0, !.nextState = NullState,
                        !.done = FALSE, !.value = 0, !.updates = @ + 1]
  /\ UNCHANGED <<cyk, floyd, kp, eng, pair, rete, ule, fft, voc, ver>>

NextEstimator == TDEstimate \/ TDUpdateCall \/ TDRestore

SpecEstimator == InitTD /\ [][NextEstimator]_vars

\* C11: after construction and after every estimate, update and restore, the
\* weight vector and the eligibility vector have the estimator's feature
\* count F as their length, and so has the feature vector extracted from
\* every state.
C11_FeatureLengths ==
  td.pc # "idle" =>
    /\ Len(td.est.weights) = td.F
    /\ Len(td.est.eligibility) = td.F
    /\ \A s \in TDStates : Len(ExtractFeatures(s, Len(td.est.weights))) = td.F

\* An estimator restored from a record whose eligibility was longer than its
\* weights has been updated.
C11_Witness ==
  /\ td.pc = "updated"
  /\ td.F = 2
  /\ td.est.weights # <<1, 0>>

\* ------------------------------------------------------------------------
\* ReteEngine (src/src/App.jsx 296-332)
\*
\* A fact value is a string; "undefined" is JavaScript's undefined, which a
\* facts object can hold under a key.  A condition's test is the set of
\* values on which the test function returns a truthy value.
\* ------------------------------------------------------------------------

NewReteEngine == [alphaNodes |-> <<>>, betaNodes |-> <<>>, rules |-> <<>>]

\* conditions.forEach(cond => { if (!alphaNodes.find(n => n.key === cond.key)) push })
RECURSIVE AlphaNodes(_, _, _)
AlphaNodes(nodes, conditions, i) ==
  IF i > Len(conditions) THEN nodes
  ELSE AlphaNodes(IF \E k \in 1 .. Len(nodes) : nodes[k].key = conditions[i].key
                  THEN nodes ELSE Append(nodes, conditions[i]),
                  conditions, i + 1)

\* addRule(name, conditions, action)
AddRule(engine, name, conditions) ==
  [engine EXCEPT !.rules = Append(@, [name |-> name, conditions |-> conditions]),
                 !.alphaNodes = AlphaNodes(@, conditions, 1)]

\* facts[cond.key]
FactAt(facts, key) == IF key \in DOMAIN facts THEN facts[key] ELSE "undefined"

\* rule.conditions.every(cond => fact !== undefined && cond.test(fact))
AllMatch(rule, facts) ==
  \A i \in 1 .. Len(rule.conditions) :
    /\ FactAt(facts, rule.conditions[i].key) # "undefined"
    /\ FactAt(facts, rule.conditions[i].key) \in rule.conditions[i].test

\* evaluate(facts)
Evaluate(engine, facts) == SelectSeq(engine.rules, LAMBDA rule : AllMatch(rule, facts))

\* --- the inputs explored ---------------------------------------------------

MaxRules == 2

MaxConditions == 2

FactKeys == {"lastWord", "rhymeTarget"}

FactValues == {"undefined", "null", "rose"}

\* typeof w === 'string'; w === undefined; () => true
FactTests == {{"rose"}, {"undefined"}, FactValues}

RuleNames == {"rhymeCheck", "avoidRepetition"}

ConditionLists == SeqsUpTo([key : FactKeys, test : FactTests], MaxConditions)

FactObjects == UNION {[keys -> FactValues] : keys \in SUBSET FactKeys}

InitRete ==
  /\ rete = [pc |-> "new", engine |-> NewReteEngine, facts |-> <<>>, matches |-> <<>>]
  /\ cyk = Idle
  /\ floyd = Idle
  /\ td = Idle
  /\ kp = Idle
  /\ eng = Idle
  /\ pair = Idle
  /\ ule = Idle
  /\ fft = Idle
  /\ voc = Idle
  /\ ver = Idle

ReteAddRule ==
  /\ rete.pc \in {"new", "added", "evaluated"}
  /\ Len(rete.engine.rules) < MaxRules
  /\ \E name \in RuleNames, conditions \in ConditionLists :
       rete' = [pc |-> "added", engine |-> AddRule(rete.engine, name, conditions),
                facts |-> <<>>, matches |-> <<>>]
  /\ UNCHANGED <<cyk, floyd, td, kp, eng, pair, ule, fft, voc, ver>>

ReteEvaluate ==
  /\ rete.pc \in {"new", "added"}
  /\ \E facts \in FactObjects :
       rete' = [rete EXCEPT !.pc = "evaluated", !.facts = facts,
                            !.matches = Evaluate(rete.engine, facts)]
  /\ UNCHANGED <<cyk, floyd, td, kp, eng, pair, ule, fft, voc, ver>>

NextRete == ReteAddRule \/ ReteEvaluate

SpecRete == InitRete /\ [][NextRete]_vars

\* A condition holds on facts when its key is in facts and its test accepts
\* the value stored there.
ConditionHolds(cond, facts) == cond.key \in DOMAIN facts /\ facts[cond.key] \in cond.test

\* C12: evaluate(facts) returns exactly the registered rules all of whose
\* conditions hold on facts, a condition whose key is absent from facts
\* counting as failing.
C12_EvaluateExact ==
  rete.pc = "evaluated" =>
    Range(rete.matches) =
      {rete.engine.rules[i] : i \in
         {k \in 1 .. Len(rete.engine.rules) :
            \A c \in 1 .. Len(rete.engine.rules[k].conditions) :
              ConditionHolds(rete.engine.rules[k].conditions[c], rete.facts)}}

\* ------------------------------------------------------------------------
\* The grammar that the linguistic engine supplies to the CYK parser
\* (src/src/UniversalLinguisticEngine.js 237-381, src/src/App.jsx 486)
\*
\* Words and symbol names are sequences of characters, as in the parser.
\* ------------------------------------------------------------------------

NtAdj == <<"A", "d", "j">>
NtAdv == <<"A", "d", "v">>
NtPrep == <<"P", "r", "e", "p">>
NtPP == <<"P", "P">>
NtP == <<"P">>

LexiconN ==
  <<<<"h", "e", "a", "r", "t">>, <<"h", "e", "a", "r", "t", "s">>,
    <<"s", "o", "u", "l">>, <<"s", "o", "u", "l", "s">>,
    <<"n", "i", "g", "h", "t">>, <<"s", "h", "a", "d", "o", "w">>,
    <<"l", "i", "g", "h", "t">>, <<"s", "t", "a", "r", "s">>,
    <<"w", "i", "n", "d">>, <<"f", "i", "r", "e">>,
    <<"d", "r", "e", "a", "m", "s">>, <<"v", "o", "i", "c", "e">>,
    <<"s", "i", "l", "e", "n", "c", "e">>>>

LexiconV ==
  <<<<"b", "u", "r", "n", "s">>, <<"b", "u", "r", "n">>,
    <<"f", "a", "d", "e", "s">>, <<"f", "a", "d", "e">>,
    <<"c", "a", "l", "l", "s">>, <<"c", "a", "l", "l">>,
    <<"s", "e", "e", "k">>, <<"s", "e", "e", "k", "s">>,
    <<"l", "o", "s", "t">>, <<"f", "o", "u", "n", "d">>,
    <<"w", "e", "e", "p">>, <<"w", "e", "e", "p", "s">>>>

LexiconAdj ==
  <<<<"d", "a", "r", "k">>, <<"b", "r", "i", "g", "h", "t">>,
    <<"c", "o", "l", "d">>, <<"e", "t", "e", "r", "n", "a", "l">>,
    <<"s", "o", "f", "t">>, <<"s", "i", "l", "e", "n", "t">>,
    <<"b", "r", "o", "k", "e", "n">>,
    <<"a", "n", "c", "i", "e", "n", "t">>,
    <<"h", "o", "l", "l", "o", "w">>, <<"f", "a", "d", "i", "n", "g">>,
    <<"g", "o", "l", "d", "e", "n">>, <<"b", "i", "t", "t", "e", "r">>>>

LexiconDet ==
  <<<<"t", "h", "e">>, <<"a">>, <<"m", "y">>, <<"o", "u", "r">>,
    <<"t", "h", "i", "s">>, <<"t", "h", "o", "s", "e">>>>

LexiconAdv ==
  <<<<"s", "o", "f", "t", "l", "y">>, <<"g", "e", "n", "t", "l", "y">>,
    <<"b", "o", "l", "d", "l", "y">>, <<"s", "l", "o", "w", "l", "y">>,
    <<"b", "r", "i", "g", "h", "t", "l", "y">>,
    <<"q", "u", "i", "e", "t", "l", "y">>>>

LexiconPrep ==
  <<<<"i", "n">>, <<"o", "n">>, <<"t", "h", "r", "o", "u", "g", "h">>,
    <<"b", "e", "y", "o", "n", "d">>,
    <<"b", "e", "n", "e", "a", "t", "h">>,
    <<"a", "g", "a", "i", "n", "s", "t">>, <<"w", "i", "t", "h">>,
    <<"w", "i", "t", "h", "o", "u", "t">>>>

\* ConstraintGrammar._buildProductionLexicon(): the words of each category
\* (features and tags are not read by getFlatGrammar).
BuildProductionLexicon ==
  [sym \in {NtN, NtV, NtAdj, NtDet, NtAdv, NtPrep} |->
     CASE sym = NtN -> LexiconN
       [] sym = NtV -> LexiconV
       [] sym = NtAdj -> LexiconAdj
       [] sym = NtDet -> LexiconDet
       [] sym = NtAdv -> LexiconAdv
       [] sym = NtPrep -> LexiconPrep]

\* this.lexicon[sym].map(o => o.word), as the productions of one key
WordProductions(lexicon, sym) == {StrProd(lexicon[sym][i]) : i \in 1 .. Len(lexicon[sym])}

\* The keys of the object returned by getFlatGrammar.
FlatGrammarKeys(lexicon) == DOMAIN lexicon \cup {NtS, NtNP, NtVP, NtPP, NtP}

\* ConstraintGrammar.getFlatGrammar()
GetFlatGrammar(lexicon) ==
  [key \in FlatGrammarKeys(lexicon) |->
     CASE key = NtS -> {ArrProd(<<NtNP, NtVP>>), ArrProd(<<NtVP>>), ArrProd(<<NtS, NtPP>>)}
       [] key = NtNP -> {ArrProd(<<NtDet, NtN>>), ArrProd(<<NtN>>), ArrProd(<<NtAdj, NtN>>),
                         ArrProd(<<NtNP, NtPP>>)}
       [] key = NtVP -> {ArrProd(<<NtV, NtNP>>), ArrProd(<<NtV>>), ArrProd(<<NtAdv, NtVP>>),
                         ArrProd(<<NtVP, NtPP>>)}
       [] key = NtPP -> {ArrProd(<<NtP, NtNP>>)}
       [] key = NtP -> WordProductions(lexicon, NtPrep)
       [] OTHER -> WordProductions(lexicon, key)]

\* --- the inputs explored ---------------------------------------------------

\* The words of the sentences handed to the parser.
SentenceWords ==
  {<<"t", "h", "e">>, <<"h", "e", "a", "r", "t">>, <<"b", "u", "r", "n", "s">>,
   <<"i", "n">>, <<"d", "a", "r", "k">>}

Sentences == SeqsUpTo(SentenceWords, MaxTokens)

InitULE ==
  /\ ule = [pc |-> "new", lexicon |-> BuildProductionLexicon, grammar |-> <<>>,
            tokens |-> <<>>, result |-> FALSE]
  /\ cyk = Idle
  /\ floyd = Idle
  /\ td = Idle
  /\ kp = Idle
  /\ eng = Idle
  /\ pair = Idle
  /\ rete = Idle
  /\ fft = Idle
  /\ voc = Idle
  /\ ver = Idle

\* UniversalLinguisticEngine.getGrammar(), handed to new CYKParser(...)
GetGrammar ==
  /\ ule.pc = "new"
  /\ ule' = [ule EXCEPT !.pc = "supplied", !.grammar = GetFlatGrammar(ule.lexicon)]
  /\ UNCHANGED <<cyk, floyd, td, kp, eng, pair, rete, fft, voc, ver>>

\* parser.parse(tokens) under the supplied grammar
ParseSentence ==
  /\ ule.pc = "supplied"
  /\ \E tokens \in Sentences :
       ule' = [ule EXCEPT !.pc = "parsed", !.tokens = tokens,
                          !.result = CYKParse(ule.grammar, tokens)]
  /\ UNCHANGED <<cyk, floyd, td, kp, eng, pair, rete, fft, voc, ver>>

NextULE == GetGrammar \/ ParseSentence

SpecULE == InitULE /\ [][NextULE]_vars

\* C17: every right-hand side of every rule of the supplied grammar is a
\* single terminal or exactly two symbols (Chomsky normal form).
C17_SuppliedGrammarCNF ==
  ule.pc \in {"supplied", "parsed"} =>
    \A key \in DOMAIN ule.grammar : \A prod \in ule.grammar[key] :
      prod.kind = "str" \/ (prod.kind = "arr" /\ Len(prod.syms) = 2)

\* ------------------------------------------------------------------------
\* FFTMeterAnalyzer (src/src/App.jsx 426-471)
\*
\* Reals are fixed-point numbers in units of 1 / FixedUnit; cosines and sines
\* of the multiples of 2 pi / 32 come from a table, which covers signals of
\* up to 32 samples.  A score is a fraction num / den.  The patterns explored
\* are those on which the largest magnitude is the largest by a wide margin,
\* so that the rounding of this arithmetic, like that of floating point,
\* does not decide the dominant frequency.
\* ------------------------------------------------------------------------

FixedUnit == 1000

TableTurn == 32

\* 1000 * cos(2 pi j / 32) for j = 0 .. 8
QuarterCos == <<1000, 981, 924, 831, 707, 556, 383, 195, 0>>

\* Math.cos(2 pi j / 32)
Cos32(j) ==
  LET m == j % TableTurn
  IN IF m <= 8 THEN QuarterCos[m + 1]
     ELSE IF m <= 16 THEN 0 - QuarterCos[16 - m + 1]
     ELSE IF m <= 24 THEN 0 - QuarterCos[m - 16 + 1]
     ELSE QuarterCos[TableTurn - m + 1]

\* Math.sin(2 pi j / 32)
Sin32(j) == Cos32(j + 24)

\* Math.cos(angle), Math.sin(angle) for angle = -2 * Math.PI * k / n
TwiddleCos(k, n) == Cos32(k * (TableTurn \div n))

TwiddleSin(k, n) == 0 - Sin32(k * (TableTurn \div n))

\* Cooley-Tukey: _fft(signal), a sequence of <<re, im>>
RECURSIVE FFT(_)
FFT(signal) ==
  LET n == Len(signal)
      h == n \div 2
  IN IF n = 1 THEN <<<<signal[1] * FixedUnit, 0>>>>
     ELSE
       LET even == FFT([i \in 1 .. h |-> signal[2 * i - 1]])
           odd == FFT([i \in 1 .. h |-> signal[2 * i]])
           t == Stored([k \in 1 .. h |->
                  <<(TwiddleCos(k - 1, n) * odd[k][1] - TwiddleSin(k - 1, n) * odd[k][2])
                      \div FixedUnit,
                    (TwiddleCos(k - 1, n) * odd[k][2] + TwiddleSin(k - 1, n) * odd[k][1])
                      \div FixedUnit>>])
       IN Stored([k \in 1 .. n |->
            IF k <= h THEN <<even[k][1] + t[k][1], even[k][2] + t[k][2]>>
            ELSE <<even[k - h][1] - t[k - h][1], even[k - h][2] - t[k - h][2]>>])

\* Math.pow(2, Math.ceil(Math.log2(length)))
RECURSIVE PowerOfTwo(_, _)
PowerOfTwo(length, p) == IF p >= length THEN p ELSE PowerOfTwo(length, 2 * p)

\* The square of Math.sqrt(c[0]*c[0] + c[1]*c[1])
MagnitudeSquared(c) == c[1] * c[1] + c[2] * c[2]

\* magnitudes.indexOf(Math.max(...magnitudes)): the first bin (from 0) of
\* the largest magnitude among the bins 0 .. n/2 - 1
DominantFreq(spectrum, n) ==
  LET mags == Stored([k \in 1 .. n \div 2 |-> MagnitudeSquared(spectrum[k])])
  IN (CHOOSE k \in 1 .. Len(mags) :
        /\ \A j \in 1 .. Len(mags) : mags[j] <= mags[k]
        /\ \A j \in 1 .. (k - 1) : mags[j] < mags[k]) - 1

Abs(x) == IF x < 0 THEN 0 - x ELSE x

DefaultTargetPattern == <<0, 1>>

\* FFTMeterAnalyzer.analyzeStressPattern(stresses, targetPattern)
AnalyzeStressPattern(stresses, targetPattern) ==
  IF Len(stresses) < Len(targetPattern) * 2 THEN [num |-> 0, den |-> 1]
  ELSE LET n == PowerOfTwo(Len(stresses), 1)
           padded == [i \in 1 .. n |-> IF i <= Len(stresses) THEN stresses[i] ELSE 0]
           dominantFreq == DominantFreq(FFT(padded), n)
           targetFreq == Len(targetPattern)
       IN [num |-> n - Min(Abs(dominantFreq - targetFreq), n), den |-> n]

\* a < b for two scores
ScoreLess(a, b) == a.num * b.den < b.num * a.den

\* --- the inputs explored ---------------------------------------------------

MaxPatternLen == 16

MinPatternLen == 2

\* [first, 1 - first, first, ...] of the given length
Alternating(first, length) == [i \in 1 .. length |-> (first + i - 1) % 2]

\* [v, v, v, ...]
Flat(v, length) == [i \in 1 .. length |-> v]

AlternatingPatterns ==
  {Alternating(first, length) : first \in {0, 1}, length \in MinPatternLen .. MaxPatternLen}

FlatPatterns == {Flat(v, length) : v \in {0, 1}, length \in MinPatternLen .. MaxPatternLen}

NoScore == [num |-> 0, den |-> 0]

InitFFT ==
  /\ \E a \in AlternatingPatterns, f \in FlatPatterns :
       fft = [pc |-> "ready", alternating |-> a, flat |-> f,
              alternatingScore |-> NoScore, flatScore |-> NoScore]
  /\ cyk = Idle
  /\ floyd = Idle
  /\ td = Idle
  /\ kp = Idle
  /\ eng = Idle
  /\ pair = Idle
  /\ rete = Idle
  /\ ule = Idle
  /\ voc = Idle
  /\ ver = Idle

AnalyzeAlternating ==
  /\ fft.pc = "ready"
  /\ fft' = [fft EXCEPT !.pc = "alternating",
                        !.alternatingScore =
                           AnalyzeStressPattern(fft.alternating, DefaultTargetPattern)]
  /\ UNCHANGED <<cyk, floyd, td, kp, eng, pair, rete, ule, voc, ver>>

AnalyzeFlat ==
  /\ fft.pc = "alternating"
  /\ fft' = [fft EXCEPT !.pc = "both",
                        !.flatScore = AnalyzeStressPattern(fft.flat, DefaultTargetPattern)]
  /\ UNCHANGED <<cyk, floyd, td, kp, eng, pair, rete, ule, voc, ver>>

NextFFT == AnalyzeAlternating \/ AnalyzeFlat

SpecFFT == InitFFT /\ [][NextFFT]_vars

\* C18: a perfectly alternating 0/1 pattern scores strictly higher than an
\* all-equal pattern; in particular [0,1,0,1,0,1,0,1,0,1] scores strictly
\* higher than [1,1,1,1,1,1,1,1].
C18_AlternationScoresHigher ==
  fft.pc = "both" => ScoreLess(fft.flatScore, fft.alternatingScore)

\* ------------------------------------------------------------------------
\* The vocabulary under sequences of train calls (src/src/App.jsx 585-623),
\* on an engine whose maxKernelWords was left at 2500 or set to a small cap
\* after construction.
\* ------------------------------------------------------------------------

MaxTrainCalls == 2

SmallKernelWords == 2

KernelWordCaps == {SmallKernelWords, SmallKernelWords + 1, DefaultMaxKernelWords}

VocabCorpora == {EmptyCorpus, SmallCorpus, MixedCorpus, EchoCorpus, PairCorpus}

InitVocab ==
  /\ \E cap \in KernelWordCaps :
       voc = [pc |-> "new", e |-> [NewEngine(1, 1) EXCEPT !.maxKernelWords = cap],
              prior |-> <<>>, corpus |-> EmptyCorpus, incremental |-> FALSE,
              rebuilt |-> FALSE, threw |-> "none", calls |-> 0]
  /\ cyk = Idle
  /\ floyd = Idle
  /\ td = Idle
  /\ kp = Idle
  /\ eng = Idle
  /\ pair = Idle
  /\ rete = Idle
  /\ ule = Idle
  /\ fft = Idle
  /\ ver = Idle

\* train(corpus, epochs, incremental)
VocabTrain ==
  /\ voc.pc \in {"new", "trained"}
  /\ voc.calls < MaxTrainCalls
  /\ \E corpus \in VocabCorpora, incremental \in BOOLEAN :
       LET out == Train(voc.e, corpus, incremental, 1)
       IN voc' = [pc |-> "trained", e |-> out.e, prior |-> voc.e.vocabulary,
                  corpus |-> corpus, incremental |-> incremental,
                  rebuilt |-> ShouldRebuild(voc.e, corpus), threw |-> out.threw,
                  calls |-> voc.calls + 1]
  /\ UNCHANGED <<cyk, floyd, td, kp, eng, pair, rete, ule, fft, ver>>

NextVocab == VocabTrain

SpecVocab == InitVocab /\ [][NextVocab]_vars

\* The distinct tokens of the corpus of the last call.
CorpusTokens == Range(Flatten(voc.corpus))

\* C14: an incremental train call removes no token, and the vocabulary after
\* it is the union of the vocabulary before it and the tokens of the corpus.
C14_IncrementalUnion ==
  (voc.pc = "trained" /\ voc.incremental) =>
    /\ Range(voc.prior) \subseteq Range(voc.e.vocabulary)
    /\ Range(voc.e.vocabulary) = Range(voc.prior) \cup CorpusTokens

\* The count that the last call's frequency table held for a word, and the
\* words that passed its threshold.
LastCount(w) == Frequency(voc.prior, Flatten(voc.corpus), voc.incremental, w)

LastCandidates ==
  {w \in (IF voc.incremental THEN Range(voc.prior) ELSE {}) \cup CorpusTokens :
     LastCount(w) >= MinFrequency(voc.incremental)}

ProducedByModel(e, w) ==
  /\ ~TransformThrows(e.kpca, <<KernelInput(e.embeddings[w])>>)
  /\ e.emotionalSpace[w] = TransformRow(e.kpca, KernelInput(e.embeddings[w]), EmbeddingUnit)

\* C24: after any train call the embeddings map and the emotional-space map
\* hold one vector for every vocabulary token and none for any other token,
\* and every emotional-space vector was produced by the fitted kernel model.
C24_MapsCoverVocabulary ==
  voc.pc = "trained" =>
    /\ DOMAIN voc.e.embeddings = Range(voc.e.vocabulary)
    /\ DOMAIN voc.e.emotionalSpace = Range(voc.e.vocabulary)
    /\ \A w \in DOMAIN voc.e.emotionalSpace : ProducedByModel(voc.e, w)

\* ------------------------------------------------------------------------
\* The constraint rules of the engine and the verification of a chosen
\* token (src/src/App.jsx 498-519, 940-958)
\*
\* Every word explored has one syllable.
\* ------------------------------------------------------------------------

\* ule.analyze(word).rhymePart: the phonemes from the last vowel on
\* (src/src/UniversalLinguisticEngine.js 19-29, 123-181, 223-230)
RhymePart(word) ==
  CASE word = "sun" -> "un"
    [] word = "run" -> "un"
    [] word = "moon" -> "Un"
    [] word = "" -> ""

\* The facts object that generateLine builds after appending `chosen`;
\* syllableCount is the count after the append.
LineFacts(context, chosen, syllableCount, targetSyllables, rhymeTarget) ==
  [lastWord |-> chosen,
   rhymeTarget |-> IF syllableCount >= targetSyllables - 2 THEN rhymeTarget ELSE Null,
   syllableCount |-> syllableCount,
   history |-> Append(context, chosen)]

\* The conditions of rhymeCheck: typeof w === 'string' && w.length > 0;
\* typeof t === 'string'
RhymeCheckMatches(facts) == facts.lastWord # "" /\ facts.rhymeTarget # Null

\* The action of rhymeCheck
RhymeCheckAction(facts) ==
  facts.rhymeTarget = "" \/ RhymePart(facts.lastWord) = RhymePart(facts.rhymeTarget)

SyllableLimitMax == 10

SyllableLimitMin == 8

\* The conditions of syllableLimit
SyllableLimitMatches(facts) ==
  facts.syllableCount <= SyllableLimitMax /\ facts.syllableCount >= SyllableLimitMin

\* The conditions of avoidRepetition: w !== undefined; h.length < 3 ||
\* h.slice(-3).slice(0, -1).every(word => word !== h.slice(-1)[0])
AvoidRepetitionMatches(facts) ==
  LET h == facts.history
  IN Len(h) < 3 \/ \A i \in {Len(h) - 2, Len(h) - 1} : h[i] # h[Len(h)]

\* The rules in the order _initializeReteRules registers them.
EngineRuleNames == <<"rhymeCheck", "syllableLimit", "avoidRepetition">>

RuleMatches(name, facts) ==
  CASE name = "rhymeCheck" -> RhymeCheckMatches(facts)
    [] name = "syllableLimit" -> SyllableLimitMatches(facts)
    [] name = "avoidRepetition" -> AvoidRepetitionMatches(facts)

\* rule.action(facts): the actions of syllableLimit and avoidRepetition are
\* () => true
RuleAction(name, facts) ==
  CASE name = "rhymeCheck" -> RhymeCheckAction(facts)
    [] name = "syllableLimit" -> TRUE
    [] name = "avoidRepetition" -> TRUE

\* this.rete.evaluate(facts): the rules all of whose conditions hold
EvaluateRules(facts) == SelectSeq(EngineRuleNames, LAMBDA name : RuleMatches(name, facts))

\* this.rete.evaluate(facts).filter(r => !r.action(facts))
Violations(facts) == SelectSeq(EvaluateRules(facts), LAMBDA name : ~RuleAction(name, facts))

\* --- the inputs explored ---------------------------------------------------

MaxContext == 2

VerifyWords == {"sun", "run", "moon"}

VerifyTargets == {Null, "", "sun", "moon"}

VerifyCounts == {1, 8, 9}

InitVerify ==
  /\ ver = [pc |-> "ready", facts |-> LineFacts(<<>>, "", 0, PoemTargetSyllables, Null),
            matches |-> <<>>, violations |-> <<>>, kept |-> FALSE]
  /\ cyk = Idle
  /\ floyd = Idle
  /\ td = Idle
  /\ kp = Idle
  /\ eng = Idle
  /\ pair = Idle
  /\ rete = Idle
  /\ ule = Idle
  /\ fft = Idle
  /\ voc = Idle

\* The verification of a token just appended: the token stays committed
\* unless a rule that matched has a failing action.
VerifyToken ==
  /\ ver.pc \in {"ready", "verified"}
  /\ \E context \in SeqsUpTo(VerifyWords, MaxContext), chosen \in VerifyWords,
        syllableCount \in VerifyCounts, rhymeTarget \in VerifyTargets :
       \E facts \in {LineFacts(context, chosen, syllableCount, PoemTargetSyllables,
                               rhymeTarget)} :
         ver' = [pc |-> "verified", facts |-> facts,
                 matches |-> EvaluateRules(facts),
                 violations |-> Violations(facts),
                 kept |-> Len(Violations(facts)) = 0]
  /\ UNCHANGED <<cyk, floyd, td, kp, eng, pair, rete, ule, fft, voc>>

NextVerify == VerifyToken

SpecVerify == InitVerify /\ [][NextVerify]_vars

\* The last token of the history equals one of the two tokens before it.
RepeatsRecent(h) ==
  \E i \in {Len(h) - 2, Len(h) - 1} : i >= 1 /\ h[i] = h[Len(h)]

\* C30: a token equal to either of the two tokens immediately preceding it
\* in the context is never left committed: its verification reports a
\* violation of avoidRepetition and the token is rolled back.
C30_RepetitionRolledBack ==
  (ver.pc = "verified" /\ RepeatsRecent(ver.facts.history))
    => /\ \E i \in 1 .. Len(ver.violations) : ver.violations[i] = "avoidRepetition"
       /\ ~ver.kept

\* The sum of the syllable counts of the tokens of a line
RECURSIVE LineSyllables(_)
LineSyllables(line) ==
  IF line = <<>> THEN 0 ELSE CountSyllables(Head(line)) + LineSyllables(Tail(line))

====
